---- MODULE Spec2Model ----
(***************************************************************************)
(* A model of python-fmrest's response objects: Foundset (a cached view on *)
(* a single-pass producer of records, fmrest/foundset.py and               *)
(* fmrest/utils.py cache_generator) and Record (fmrest/record.py).         *)
(*                                                                         *)
(* SpecFoundset lets iterator creations, next() calls, index accesses and  *)
(* to_df() interleave freely on one Foundset; SpecIterators keeps to the   *)
(* iterators. SpecTwice runs the programs list(fs); list(fs) and           *)
(* list(zip(fs, fs)); list(zip(fs, fs)). SpecRecord constructs a Record.   *)
(*                                                                         *)
(* SpecRecordOps constructs a Record and calls its methods (get and set    *)
(* by item and by attribute, pop, to_dict) in any order. SpecServer hands  *)
(* a manually constructed Record to Server.delete and Server.edit          *)
(* (fmrest/server.py). SpecMapper maps a response of the Data API with     *)
(* Server._process_foundset_response and reads the resulting Foundset and  *)
(* its portal Foundsets by iteration, indexing and list().                 *)
(*                                                                         *)
(* SpecPortalInfo maps one row with a portal and the entries of its        *)
(* portalDataInfo; SpecRemap maps one decoded response twice. SpecSession  *)
(* is a Server over a session: login, logout, get_record, get_records,     *)
(* find and fetch_file in any order, inside a with block or outside.       *)
(* SpecRelogin makes the calls of a Server with the setting auto_relogin.  *)
(*                                                                         *)
(* SpecEdit changes a Record of a layout through its methods and writes it *)
(* back with Server.edit, any number of times. SpecFailing is a Foundset   *)
(* on a producer that raises at one of its rows. SpecUpload is a Server    *)
(* that uploads containers between other calls. SpecCloud is a CloudServer *)
(* (fmrest/cloudserver.py): logins and the calls of a session.             *)
(***************************************************************************)
EXTENDS Integers, Sequences, FiniteSets, TLC

VARIABLES
    given,      \* the arguments the Foundset was constructed with
    foundset,   \* the Foundset object: _records, _info, _cache, _iter
    its,        \* the iterators handed out by Foundset.__iter__
    hist,       \* per iterator: the items it has yielded so far (history)
    ret,        \* the last call on the Foundset and what it returned
    run,        \* a program that uses the Foundset twice over, and its results
    args,       \* the arguments Record is constructed with, and the environment
    record,     \* the Record object: _keys, _values, _in_portal, _modifications
    last,       \* the last call on the Record or with it, with the state before it
    server,     \* the Server object: _token, _last_fm_error, _last_script_result, _headers
                \* (and _fmid_token of a CloudServer)
    response,   \* a decoded response of the Data API and the Server's type_conversion
    portals     \* the portal Foundsets of the mapped rows, by row and portal name

fsVars == <<given, foundset, its, hist, ret>>

opVars == <<last, server>>

mapVars == <<response, portals>>

vars == <<given, foundset, its, hist, ret, run, args, record, last, server, response, portals>>

----------------------------------------------------------------------------
(* Bounds of the model *)

\* longest producer (number of items the records generator yields)
MaxN == 2

\* number of iterators obtained from one Foundset
MaxIters == 2

\* longest key list and longest value list a Record is constructed from
MaxFields == 2

----------------------------------------------------------------------------
(* Values *)

\* The producer yields distinct objects; the code never looks into them, so
\* an object is identified by its source position 1, 2, ... and 0 stands
\* where a call returned no item.
\* every finite producer of at most MaxN items: the generator handed to
\* Foundset as records, as the sequence of the objects it will yield
Sources == { [p \in 1..n |-> p] : n \in 0..MaxN }

\* the mappings passed as info: a dict is a set of <<key, value>> pairs
EmptyInfo == {}

SampleInfo == {<<"table", "Sample">>, <<"foundCount", "69">>, <<"returnedCount", "50">>}

\* the info argument: left out (the default applies) or supplied
InfoArgs ==
    { [supplied |-> FALSE, info |-> EmptyInfo],
      [supplied |-> TRUE, info |-> EmptyInfo],
      [supplied |-> TRUE, info |-> SampleInfo] }

\* the outcome of a call: a returned item or a raised exception
Yield(item) == [kind |-> "item", item |-> item]

Raise(exc) == [kind |-> exc, item |-> 0]

----------------------------------------------------------------------------
(* fmrest/utils.py: cache_generator; fmrest/foundset.py: Foundset *)

\* Faulty variant of Foundset.__init__: the info argument is dropped.
FoundsetInitNoInfo(records, infoArg) ==
    [ records |-> records,
      info    |-> EmptyInfo,
      cache   |-> [values |-> <<>>, complete |-> FALSE],
      iter    |-> "suspended",
      raises  |-> "none" ]

\* Foundset.__init__: the default of info is an empty dict; the cache is
\* [[], False]; _iter is cache_generator(_records, _cache), not yet started.
\* records holds the items the producer has yet to yield, raises what it
\* does after them: "none" when it ends as a generator ends, or the
\* exception it raises instead of yielding a further item.
FoundsetInit(records, infoArg) ==
    [ records |-> records,
      info    |-> IF infoArg.supplied THEN infoArg.info ELSE EmptyInfo,
      cache   |-> [values |-> <<>>, complete |-> FALSE],
      iter    |-> "suspended",
      raises  |-> "none" ]

\* Faulty variant of cache_generator: the value is appended twice.
NextCachedTwice(f) ==
    IF f.iter = "finished"
    THEN [f |-> f, out |-> Raise("StopIteration")]
    ELSE IF f.records = <<>>
    THEN [f |-> [f EXCEPT !.cache.complete = TRUE, !.iter = "finished"],
          out |-> Raise("StopIteration")]
    ELSE [f |-> [f EXCEPT !.records = Tail(f.records),
                          !.cache.values = Append(Append(f.cache.values, Head(f.records)),
                                                  Head(f.records))],
          out |-> Yield(Head(f.records))]

\* Faulty variant of cache_generator: the value is yielded but not cached.
NextCachedNoAppend(f) ==
    IF f.iter = "finished"
    THEN [f |-> f, out |-> Raise("StopIteration")]
    ELSE IF f.records = <<>>
    THEN [f |-> [f EXCEPT !.cache.complete = TRUE, !.iter = "finished"],
          out |-> Raise("StopIteration")]
    ELSE [f |-> [f EXCEPT !.records = Tail(f.records)],
          out |-> Yield(Head(f.records))]

\* Faulty variant of cache_generator: the cache is flagged complete as soon
\* as the last value is cached, before the producer has signalled its end.
NextCachedEagerFlag(f) ==
    IF f.iter = "finished"
    THEN [f |-> f, out |-> Raise("StopIteration")]
    ELSE IF f.records = <<>>
    THEN [f |-> [f EXCEPT !.cache.complete = TRUE, !.iter = "finished"],
          out |-> Raise("StopIteration")]
    ELSE [f |-> [f EXCEPT !.records = Tail(f.records),
                          !.cache.values = Append(f.cache.values, Head(f.records)),
                          !.cache.complete = (Tail(f.records) = <<>>)],
          out |-> Yield(Head(f.records))]

\* Faulty variant of cache_generator: after an exception of the producer
\* the generator can be resumed and raises the exception again.
NextCachedResumable(f) ==
    IF f.iter = "finished"
    THEN [f |-> f, out |-> Raise("StopIteration")]
    ELSE IF f.records = <<>> /\ f.raises # "none"
    THEN [f |-> f, out |-> Raise(f.raises)]
    ELSE IF f.records = <<>>
    THEN [f |-> [f EXCEPT !.cache.complete = TRUE, !.iter = "finished"],
          out |-> Raise("StopIteration")]
    ELSE [f |-> [f EXCEPT !.records = Tail(f.records),
                          !.cache.values = Append(f.cache.values, Head(f.records))],
          out |-> Yield(Head(f.records))]

\* next(self._iter): one step of the generator cache_generator. It asks the
\* producer for its next value; a value is appended to cache[0] and yielded;
\* when the producer is exhausted cache[1] is set and the generator returns.
\* An exception of the producer passes through the for loop and leaves the
\* generator, which is finished by it, cache[1] not set. A generator that
\* has finished raises StopIteration and does nothing.
NextCached(f) ==
    IF f.iter = "finished"
    THEN [f |-> f, out |-> Raise("StopIteration")]
    ELSE IF f.records = <<>> /\ f.raises # "none"
    THEN [f |-> [f EXCEPT !.iter = "finished"], out |-> Raise(f.raises)]
    ELSE IF f.records = <<>>
    THEN [f |-> [f EXCEPT !.cache.complete = TRUE, !.iter = "finished"],
          out |-> Raise("StopIteration")]
    ELSE [f |-> [f EXCEPT !.records = Tail(f.records),
                          !.cache.values = Append(f.cache.values, Head(f.records))],
          out |-> Yield(Head(f.records))]

\* Foundset.__iter__: iter(cache[0]) when the cache is complete, otherwise
\* itertools.chain(cache[0], self._iter). Both start with a list iterator
\* at index 0 on the live list cache[0].
NoIter == [kind |-> "none", stage |-> "done", idx |-> 0]

\* Faulty variant of __iter__: the shared generator is returned as it is,
\* without the values cached so far in front of it.
FoundsetIterNoReplay(f) ==
    IF f.cache.complete
    THEN [kind |-> "list", stage |-> "cache", idx |-> 0]
    ELSE [kind |-> "chain", stage |-> "iter", idx |-> 0]

FoundsetIter(f) ==
    IF f.cache.complete
    THEN [kind |-> "list", stage |-> "cache", idx |-> 0]
    ELSE [kind |-> "chain", stage |-> "cache", idx |-> 0]

\* Faulty variant of next(): the list iterator walks the cached values
\* from the end of the list.
IterNextBackwards(f, it) ==
    IF it.stage = "cache" /\ it.idx < Len(f.cache.values)
    THEN [f |-> f, it |-> [it EXCEPT !.idx = it.idx + 1],
          out |-> Yield(f.cache.values[Len(f.cache.values) - it.idx])]
    ELSE IF it.stage = "done" \/ (it.stage = "cache" /\ it.kind = "list")
    THEN [f |-> f, it |-> [it EXCEPT !.stage = "done"], out |-> Raise("StopIteration")]
    ELSE LET r == NextCached(f)
         IN  [f |-> r.f,
              it |-> [it EXCEPT !.stage = IF r.out.kind = "item" THEN "iter" ELSE "done"],
              out |-> r.out]

\* next() on an iterator returned by __iter__. The list iterator yields
\* cache[0][idx] while idx < len(cache[0]) and is exhausted for good the
\* first time it finds idx >= len(cache[0]); a chain then goes on with
\* next(self._iter), the generator all chains share, until that one stops
\* or raises; the generator is finished then, and every later next() of
\* the chain ends in its StopIteration.
IterNext(f, it) ==
    IF it.stage = "cache" /\ it.idx < Len(f.cache.values)
    THEN [f |-> f, it |-> [it EXCEPT !.idx = it.idx + 1],
          out |-> Yield(f.cache.values[it.idx + 1])]
    ELSE IF it.stage = "done" \/ (it.stage = "cache" /\ it.kind = "list")
    THEN [f |-> f, it |-> [it EXCEPT !.stage = "done"], out |-> Raise("StopIteration")]
    ELSE LET r == NextCached(f)
         IN  [f |-> r.f,
              it |-> [it EXCEPT !.stage = IF r.out.kind = "item" THEN "iter" ELSE "done"],
              out |-> r.out]

\* list.__getitem__ of Python: a negative index counts from the end
ListGet(list, index) ==
    LET i == IF index < 0 THEN index + Len(list) ELSE index
    IN  IF 0 <= i /\ i < Len(list) THEN Yield(list[i + 1]) ELSE Raise("IndexError")

\* Faulty variant of the loop of __getitem__: index > len(cache[0]).
RECURSIVE ConsumeOffByOne(_, _)
ConsumeOffByOne(f, index) ==
    IF index > Len(f.cache.values)
    THEN LET r == NextCached(f)
         IN  IF r.out.kind = "item" THEN ConsumeOffByOne(r.f, index)
             ELSE [f |-> r.f,
                   raised |-> IF r.out.kind = "StopIteration" THEN "none" ELSE r.out.kind]
    ELSE [f |-> f, raised |-> "none"]

\* Faulty variant of the loop of __getitem__: a negative index that reaches
\* before the start of the cache makes the loop consume as well.
RECURSIVE ConsumeForNegative(_, _)
ConsumeForNegative(f, index) ==
    IF index >= Len(f.cache.values) \/ 0 - index > Len(f.cache.values)
    THEN LET r == NextCached(f)
         IN  IF r.out.kind = "item" THEN ConsumeForNegative(r.f, index)
             ELSE [f |-> r.f,
                   raised |-> IF r.out.kind = "StopIteration" THEN "none" ELSE r.out.kind]
    ELSE [f |-> f, raised |-> "none"]

\* the loop of Foundset.__getitem__: while index >= len(cache[0]), call
\* next(self._iter) and leave the loop on StopIteration; any other
\* exception of next is not caught and leaves __getitem__
RECURSIVE Consume(_, _)
Consume(f, index) ==
    IF index >= Len(f.cache.values)
    THEN LET r == NextCached(f)
         IN  IF r.out.kind = "item" THEN Consume(r.f, index)
             ELSE [f |-> r.f,
                   raised |-> IF r.out.kind = "StopIteration" THEN "none" ELSE r.out.kind]
    ELSE [f |-> f, raised |-> "none"]

\* Faulty variant of __getitem__: next(self._iter) is called once before the
\* cache is looked at.
FoundsetGetItemEager(f, index) ==
    LET c == Consume(NextCached(f).f, index)
    IN  [f |-> c.f,
         out |-> IF c.raised # "none" THEN Raise(c.raised)
                 ELSE ListGet(c.f.cache.values, index)]

\* Foundset.__getitem__: the loop, then cache[0][index]
FoundsetGetItem(f, index) ==
    LET c == Consume(f, index)
    IN  [f |-> c.f,
         out |-> IF c.raised # "none" THEN Raise(c.raised)
                 ELSE ListGet(c.f.cache.values, index)]

\* Foundset.is_complete
IsComplete(f) == f.cache.complete

\* Foundset.info
Info(f) == f.info

\* a full iteration of a fresh iterator, as `for r in self` does: next()
\* until StopIteration or an exception, which leaves the loop; rows are
\* the items yielded
RECURSIVE Drain(_, _, _)
Drain(f, it, rows) ==
    LET r == IterNext(f, it)
    IN  IF r.out.kind = "item"
        THEN Drain(r.f, r.it, Append(rows, r.out.item))
        ELSE [f |-> r.f, rows |-> rows,
              raised |-> IF r.out.kind = "StopIteration" THEN "none" ELSE r.out.kind]

\* Faulty variant of to_df: the rows are read from the producer itself,
\* past the cache.
FoundsetToDfRaw(f, pandas) ==
    IF pandas
    THEN [f |-> [f EXCEPT !.records = <<>>], out |-> [kind |-> "DataFrame", item |-> 0]]
    ELSE [f |-> f, out |-> Raise("Exception")]

\* Foundset.to_df: raises when pandas cannot be imported, before it touches
\* the records; otherwise iterates the whole Foundset
FoundsetToDf(f, pandas) ==
    IF pandas
    THEN LET d == Drain(f, FoundsetIter(f), <<>>)
         IN  [f |-> d.f,
              out |-> IF d.raised # "none" THEN Raise(d.raised)
                      ELSE [kind |-> "DataFrame", item |-> 0]]
    ELSE [f |-> f, out |-> Raise("Exception")]

----------------------------------------------------------------------------
(* SpecFoundset: one Foundset, used freely *)

\* the values of the variables a specification does not use
NoRun == [prog |-> "none", pc |-> "idle", round |-> 0, first |-> <<>>, second |-> <<>>]

NoArgs == [keys |-> <<>>, values |-> <<>>, in_portal |-> FALSE, type_conversion |-> FALSE,
           dateutil |-> FALSE]

NoRecord == [state |-> "unbuilt", raised |-> "none", keys |-> <<>>, values |-> <<>>,
             in_portal |-> FALSE, modifications |-> {}]

\* Python's None
None == [type |-> "None", text |-> ""]

\* _last_script_result before any response: None, which last_script_result
\* takes as it takes a dict without keys
NoScriptResult == {}

NoServer == [token |-> None, last_fm_error |-> None, last_script_result |-> NoScriptResult,
             headers |-> {}]

NoLast == [op |-> "none", access |-> "none", key |-> "", value |-> None, opts |-> <<>>,
           before |-> NoRecord, srv |-> NoServer, requests |-> <<>>,
           out |-> [kind |-> "none", value |-> None]]

NoResponse == [data |-> <<>>, type_conversion |-> FALSE]

NoPortals == <<>>

Iters == 1..MaxIters

\* the indices index accesses are made with: in range, out of range, negative
Indices == (0 - (MaxN + 1))..(MaxN + 1)

InitFoundset ==
    /\ given \in [records : Sources, info : InfoArgs]
    /\ foundset = FoundsetInit(given.records, given.info)
    /\ its = [k \in Iters |-> NoIter]
    /\ hist = [k \in Iters |-> <<>>]
    /\ ret = [op |-> "init", arg |-> 0, out |-> Raise("none")]
    /\ run = NoRun
    /\ args = NoArgs
    /\ record = NoRecord
    /\ last = NoLast
    /\ server = NoServer
    /\ response = NoResponse
    /\ portals = NoPortals

\* it = iter(foundset), kept in slot k
NewIter(k) ==
    /\ its[k].kind = "none"
    /\ its' = [its EXCEPT ![k] = FoundsetIter(foundset)]
    /\ ret' = [op |-> "iter", arg |-> k, out |-> Raise("none")]
    /\ UNCHANGED <<given, foundset, hist, run, args, record, opVars, mapVars>>

\* next(it) on the iterator in slot k
Next(k) ==
    /\ its[k].kind # "none"
    /\ LET r == IterNext(foundset, its[k])
       IN  /\ foundset' = r.f
           /\ its' = [its EXCEPT ![k] = r.it]
           /\ hist' = [hist EXCEPT ![k] =
                          IF r.out.kind = "item" THEN Append(@, r.out.item) ELSE @]
           /\ ret' = [op |-> "next", arg |-> k, out |-> r.out]
    /\ UNCHANGED <<given, run, args, record, opVars, mapVars>>

\* foundset[index]
GetItem(index) ==
    /\ LET r == FoundsetGetItem(foundset, index)
       IN  /\ foundset' = r.f
           /\ ret' = [op |-> "getitem", arg |-> index, out |-> r.out]
    /\ UNCHANGED <<given, its, hist, run, args, record, opVars, mapVars>>

\* foundset.to_df(), with or without pandas installed
ToDf(pandas) ==
    /\ LET r == FoundsetToDf(foundset, pandas)
       IN  /\ foundset' = r.f
           /\ ret' = [op |-> "to_df", arg |-> 0, out |-> r.out]
    /\ UNCHANGED <<given, its, hist, run, args, record, opVars, mapVars>>

NextFoundset ==
    \/ \E k \in Iters : NewIter(k)
    \/ \E k \in Iters : Next(k)
    \/ \E index \in Indices : GetItem(index)
    \/ \E pandas \in BOOLEAN : ToDf(pandas)

SpecFoundset == InitFoundset /\ [][NextFoundset]_vars

\* only iterators: iter(foundset) and next(it), in any interleaving
NextIterators ==
    \/ \E k \in Iters : NewIter(k)
    \/ \E k \in Iters : Next(k)

SpecIterators == InitFoundset /\ [][NextIterators]_vars

\* the source positions 1..N of the producer the Foundset was built on
N == Len(given.records)

\* the number of items pulled from the producer so far
Pulled == N - Len(foundset.records)

----------------------------------------------------------------------------
(* Properties of the Foundset *)

IsPrefix(a, b) == Len(a) <= Len(b) /\ \A i \in 1..Len(a) : a[i] = b[i]

NoDuplicates(seq) == \A i, j \in 1..Len(seq) : i # j => seq[i] # seq[j]

Max(a, b) == IF a >= b THEN a ELSE b

Min(a, b) == IF a <= b THEN a ELSE b

\* what a full iteration of a Foundset freshly built on the same producer
\* yields, in order
FullIteration ==
    LET f == FoundsetInit(given.records, given.info)
    IN  Drain(f, FoundsetIter(f), <<>>).rows

\* C1: the producer is drained at most once. Never more than N items are
\* pulled, every pulled item is in the cache exactly once (no source
\* position twice), and an item at an already cached position is served from
\* the cache: neither an index access to it nor the next() of an iterator
\* standing in front of it touches the producer or the cache.
C1_DrainedAtMostOnce ==
    /\ Pulled <= N
    /\ Len(foundset.cache.values) = Pulled
    /\ NoDuplicates(foundset.cache.values)
    /\ \A i \in 0..(Len(foundset.cache.values) - 1) :
          FoundsetGetItem(foundset, i) =
              [f |-> foundset, out |-> Yield(foundset.cache.values[i + 1])]
    /\ \A k \in Iters :
          (its[k].stage = "cache" /\ its[k].idx < Len(foundset.cache.values)) =>
              LET r == IterNext(foundset, its[k])
              IN  /\ r.f = foundset
                  /\ r.out = Yield(foundset.cache.values[its[k].idx + 1])

\* an iterator was just served item 1 from the cache, which holds the two
\* items pulled so far
C1_Witness ==
    /\ ret.op = "next"
    /\ ret.out = Yield(1)
    /\ its[ret.arg].stage = "cache"
    /\ Pulled = 2
    /\ Len(foundset.cache.values) = 2

\* C2: whatever the interleaving of next() calls on the iterators obtained
\* from a not yet complete Foundset, every iterator run to exhaustion has
\* yielded all N items in source order, and each item was pulled once.
C2_EveryIteratorYieldsAll ==
    \A k \in Iters :
        (its[k].kind = "chain" /\ its[k].stage = "done") =>
            /\ hist[k] = given.records
            /\ Pulled = N

\* C4: in every reachable state, foundset[i] returns for 0 <= i < N the item
\* a full iteration yields at position i and raises IndexError for i >= N;
\* so did the last index access made.
C4_IndexAccess ==
    /\ Len(FullIteration) = N
    /\ \A i \in 0..(MaxN + 1) :
          FoundsetGetItem(foundset, i).out =
              IF i < N THEN Yield(FullIteration[i + 1]) ELSE Raise("IndexError")
    /\ (ret.op = "getitem" /\ ret.arg >= 0) =>
          ret.out = IF ret.arg < N THEN Yield(FullIteration[ret.arg + 1])
                                   ELSE Raise("IndexError")

\* foundset[1] returned the second item of a Foundset that is not complete
C4_Witness ==
    /\ ret.op = "getitem"
    /\ ret.arg = 1
    /\ ret.out = Yield(2)
    /\ ~IsComplete(foundset)

\* C5: foundset[i], i >= 0, leaves max(previous length, min(i+1, N)) items in
\* the cache, and a second foundset[i] has the same outcome and changes
\* nothing: not the cache, not the flag, not the producer.
C5_IndexIdempotent ==
    \A i \in 0..(MaxN + 1) :
        LET r1 == FoundsetGetItem(foundset, i)
            r2 == FoundsetGetItem(r1.f, i)
        IN  /\ Len(r1.f.cache.values) = Max(Len(foundset.cache.values), Min(i + 1, N))
            /\ r2.out = r1.out
            /\ r2.f = r1.f

\* foundset[0] pulled one item of two and no more
C5_Witness ==
    /\ ret.op = "getitem"
    /\ ret.arg = 0
    /\ ret.out = Yield(1)
    /\ Len(foundset.cache.values) = 1
    /\ Len(foundset.records) = 1

\* C7: the cache is always a prefix of the producer's items and grows only by
\* appending; is_complete is true exactly from the moment the producer has
\* signalled its end (the generator has run off its loop), it never falls
\* back, and once it is true the cache holds the N items and changes no more.
C7_CacheLifecycle ==
    /\ [](/\ IsPrefix(foundset.cache.values, given.records)
          /\ IsComplete(foundset) <=> (foundset.iter = "finished")
          /\ IsComplete(foundset) =>
                (foundset.cache.values = given.records /\ foundset.records = <<>>))
    /\ [][/\ IsPrefix(foundset.cache.values, foundset'.cache.values)
          /\ IsComplete(foundset) => (foundset'.cache = foundset.cache)]_vars

\* an index access on a complete Foundset of two items
C7_Witness ==
    /\ ret.op = "getitem"
    /\ ret.arg = 0
    /\ IsComplete(foundset)
    /\ Len(foundset.cache.values) = 2

C9_InfoKept ==
    Info(foundset) = IF given.info.supplied THEN given.info.info ELSE EmptyInfo

\* info was supplied, and the Foundset has been indexed to completion
C9_Witness ==
    /\ given.info.info = SampleInfo
    /\ Info(foundset) = SampleInfo
    /\ ret.op = "getitem"
    /\ IsComplete(foundset)

----------------------------------------------------------------------------
(* SpecTwice: list(fs); list(fs) and list(zip(fs, fs)); list(zip(fs, fs)), *)
(* the latter as in tests/unit/test_foundset.py test_list_builduing        *)

Programs == {"list", "zip"}

InitTwice ==
    /\ given \in [records : Sources, info : InfoArgs]
    /\ foundset = FoundsetInit(given.records, given.info)
    /\ its = [k \in Iters |-> NoIter]
    /\ hist = [k \in Iters |-> <<>>]
    /\ ret = [op |-> "init", arg |-> 0, out |-> Raise("none")]
    /\ run \in { [prog |-> p, pc |-> "start", round |-> 1, first |-> <<>>, second |-> <<>>]
                 : p \in Programs }
    /\ args = NoArgs
    /\ record = NoRecord
    /\ last = NoLast
    /\ server = NoServer
    /\ response = NoResponse
    /\ portals = NoPortals

\* the list being built in this round, with one more element
Collected(x) ==
    IF run.round = 1 THEN [run EXCEPT !.first = Append(@, x)]
                     ELSE [run EXCEPT !.second = Append(@, x)]

\* the iterable of this round is exhausted: list() returns
RoundOver ==
    IF run.round = 1 THEN [run EXCEPT !.round = 2, !.pc = "start"]
                     ELSE [run EXCEPT !.pc = "done"]

\* list(fs) calls iter(fs)
ListBegin ==
    /\ run.prog = "list" /\ run.pc = "start"
    /\ its' = [its EXCEPT ![1] = FoundsetIter(foundset)]
    /\ run' = [run EXCEPT !.pc = "loop"]
    /\ UNCHANGED <<given, foundset, hist, ret, args, record, opVars, mapVars>>

\* list(fs) calls next() and appends the item, until StopIteration
ListStep ==
    /\ run.prog = "list" /\ run.pc = "loop"
    /\ LET r == IterNext(foundset, its[1])
       IN  /\ foundset' = r.f
           /\ its' = [its EXCEPT ![1] = r.it]
           /\ run' = IF r.out.kind = "item" THEN Collected(r.out.item) ELSE RoundOver
    /\ UNCHANGED <<given, hist, ret, args, record, opVars, mapVars>>

\* zip(fs, fs) calls iter(fs) twice
ZipBegin ==
    /\ run.prog = "zip" /\ run.pc = "start"
    /\ its' = [its EXCEPT ![1] = FoundsetIter(foundset), ![2] = FoundsetIter(foundset)]
    /\ run' = [run EXCEPT !.pc = "loop"]
    /\ UNCHANGED <<given, foundset, hist, ret, args, record, opVars, mapVars>>

\* one step of zip: next() on the first iterator, then on the second; the
\* zip ends with the first of them that raises StopIteration, and the second
\* is not asked when the first has raised
ZipStep ==
    /\ run.prog = "zip" /\ run.pc = "loop"
    /\ LET r1 == IterNext(foundset, its[1])
           r2 == IterNext(r1.f, its[2])
       IN  IF r1.out.kind # "item"
           THEN /\ foundset' = r1.f
                /\ its' = [its EXCEPT ![1] = r1.it]
                /\ run' = RoundOver
           ELSE /\ foundset' = r2.f
                /\ its' = [its EXCEPT ![1] = r1.it, ![2] = r2.it]
                /\ run' = IF r2.out.kind = "item"
                          THEN Collected(<<r1.out.item, r2.out.item>>)
                          ELSE RoundOver
    /\ UNCHANGED <<given, hist, ret, args, record, opVars, mapVars>>

NextTwice ==
    \/ ListBegin
    \/ ListStep
    \/ ZipBegin
    \/ ZipStep

SpecTwice == InitTwice /\ [][NextTwice]_vars

\* C3: two full iterations, one after the other, yield the same N items in
\* the same order, the items of the producer, and N items were pulled from
\* the producer in all (not 2N).
C3_IterateTwice ==
    /\ run.prog = "list" =>
          /\ IsPrefix(run.first, given.records)
          /\ IsPrefix(run.second, given.records)
          /\ Pulled <= N
    /\ (run.prog = "list" /\ run.round = 2) =>
          (run.first = given.records /\ Pulled = N)
    /\ (run.prog = "list" /\ run.pc = "done") =>
          (run.second = run.first /\ Len(run.second) = N /\ Pulled = N)

\* both iterations of a producer of two items are over
C3_Witness ==
    /\ run.prog = "list"
    /\ run.pc = "done"
    /\ run.first = <<1, 2>>
    /\ run.second = <<1, 2>>

\* C6: the two iterators of zip(fs, fs) on a fresh Foundset return the same
\* item at every step, for all N items, and the same zip on the then fully
\* cached Foundset gives the same list of pairs.
C6_ZipTwice ==
    /\ run.prog = "zip" =>
          /\ \A i \in 1..Len(run.first) : run.first[i] = <<given.records[i], given.records[i]>>
          /\ \A i \in 1..Len(run.second) : run.second[i] = run.first[i]
    /\ (run.prog = "zip" /\ run.round = 2) =>
          (Len(run.first) = N /\ IsComplete(foundset))
    /\ (run.prog = "zip" /\ run.pc = "done") => run.second = run.first

\* both zips of a producer of two items are over
C6_Witness ==
    /\ run.prog = "zip"
    /\ run.pc = "done"
    /\ run.first = <<<<1, 1>>, <<2, 2>>>>
    /\ run.second = <<<<1, 1>>, <<2, 2>>>>

----------------------------------------------------------------------------
(* fmrest/utils.py: convert_string_type; fmrest/record.py: Record *)

\* A Python value is its type and its text. The strings are those of
\* tests/unit/test_utils.py and tests/unit/test_record.py.
Str(text) == [type |-> "str", text |-> text]

IntValue(text) == [type |-> "int", text |-> text]

\* the strings int() accepts
IntLiterals == {"0", "3", "10", "42", "101", "212", "952"}

\* the strings float() accepts
FloatLiterals == IntLiterals \cup {"42.1", "nan"}

\* the strings dateutil.parser.parse accepts
DateutilParses == {"12/24/2016", "12/01/2017 20:45:30", "23:59:59"}

\* the strings that hold a "/"
WithSlash == {"12/24/2016", "12/01/2017 20:45:30"}

\* the strings that split at ":" into three parts int() accepts
ThreeIntParts == {"23:59:59", "48:61:01"}

\* convert_string_type(value) for a string: int, then float, then dateutil's
\* parse (a datetime, or a timedelta when the string holds no "/"), then the
\* split at ":", and the string itself when all fail. The import of dateutil
\* stands inside the try that catches ValueError only: when the module is
\* not installed (setup.py does not require it) the ImportError leaves the
\* function.
ConvertStringType(value, dateutil) ==
    IF value.text \in IntLiterals
    THEN [raised |-> "none", value |-> [type |-> "int", text |-> value.text]]
    ELSE IF value.text \in FloatLiterals
    THEN [raised |-> "none", value |-> [type |-> "float", text |-> value.text]]
    ELSE IF ~dateutil
    THEN [raised |-> "ImportError", value |-> value]
    ELSE IF value.text \in DateutilParses
    THEN [raised |-> "none",
          value |-> [type |-> IF value.text \in WithSlash THEN "datetime" ELSE "timedelta",
                     text |-> value.text]]
    ELSE IF value.text \in ThreeIntParts
    THEN [raised |-> "none", value |-> [type |-> "timedelta", text |-> value.text]]
    ELSE [raised |-> "none", value |-> value]

\* the loop of Record.__init__ under type_conversion: every str value is
\* converted, every other value is taken as it is, in order; the first
\* exception of a conversion ends the loop
RECURSIVE ConvertValues(_, _, _)
ConvertValues(values, dateutil, done) ==
    IF values = <<>>
    THEN [raised |-> "none", values |-> done]
    ELSE LET c == IF Head(values).type = "str"
                  THEN ConvertStringType(Head(values), dateutil)
                  ELSE [raised |-> "none", value |-> Head(values)]
         IN  IF c.raised # "none"
             THEN [raised |-> c.raised, values |-> done]
             ELSE ConvertValues(Tail(values), dateutil, Append(done, c.value))

\* Record.__init__: _keys, _values (converted under type_conversion),
\* _in_portal and an empty _modifications are set, then ValueError is raised
\* when the lengths of _keys and _values differ. An exception leaves no
\* object behind.
RecordInit(a) ==
    LET conv == IF a.type_conversion
                THEN ConvertValues(a.values, a.dateutil, <<>>)
                ELSE [raised |-> "none", values |-> a.values]
        raised == IF conv.raised # "none" THEN conv.raised
                  ELSE IF Len(a.keys) # Len(conv.values) THEN "ValueError"
                  ELSE "none"
    IN  IF raised # "none"
        THEN [NoRecord EXCEPT !.state = "raised", !.raised = raised]
        ELSE [state |-> "built", raised |-> "none", keys |-> a.keys, values |-> conv.values,
              in_portal |-> a.in_portal, modifications |-> {}]

----------------------------------------------------------------------------
(* SpecRecord: the construction of one Record *)

\* field names, one of them behind the portal prefix
SampleKeys == {"name", "recordId", "modId", "portal_notes"}

SampleValues == {Str("David"), Str("42"), Str("48:61:01"), IntValue("1")}

SeqsUpTo(S, n) == UNION { [1..m -> S] : m \in 0..n }

InitRecord ==
    /\ args \in [ keys : SeqsUpTo(SampleKeys, MaxFields),
                  values : SeqsUpTo(SampleValues, MaxFields),
                  in_portal : BOOLEAN,
                  type_conversion : BOOLEAN,
                  dateutil : BOOLEAN ]
    /\ record = NoRecord
    /\ last = NoLast
    /\ server = NoServer
    /\ response = NoResponse
    /\ portals = NoPortals
    /\ given = [records |-> <<>>, info |-> [supplied |-> FALSE, info |-> EmptyInfo]]
    /\ foundset = FoundsetInit(given.records, given.info)
    /\ its = [k \in Iters |-> NoIter]
    /\ hist = [k \in Iters |-> <<>>]
    /\ ret = [op |-> "init", arg |-> 0, out |-> Raise("none")]
    /\ run = NoRun

\* Record(keys, values, in_portal, type_conversion)
Construct ==
    /\ record.state = "unbuilt"
    /\ record' = RecordInit(args)
    /\ UNCHANGED <<args, fsVars, run, opVars, mapVars>>

NextRecord == Construct

SpecRecord == InitRecord /\ [][NextRecord]_vars

\* C10: the construction of a Record succeeds when the key list and the
\* value list have the same length and raises ValueError when they have
\* not, with type conversion and without.
C10_LengthsDecide ==
    record.state # "unbuilt" =>
        IF Len(args.keys) = Len(args.values)
        THEN record.state = "built"
        ELSE record.raised = "ValueError"

----------------------------------------------------------------------------
(* fmrest/record.py: the methods of Record *)

PORTAL_PREFIX == "portal_"

\* str.startswith
StartsWith(s, prefix) == Len(s) >= Len(prefix) /\ SubSeq(s, 1, Len(prefix)) = prefix

\* Record.__slots__
Slots == {"_keys", "_values", "_in_portal", "_modifications"}

\* the outcome of a call on a Record: a returned value or a raised exception
Returned(value) == [kind |-> "returned", value |-> value]

Raised(exc) == [kind |-> exc, value |-> None]

\* float('nan'), the value float() makes of "nan", "NaN", "Nan", ...
NaN == [type |-> "float", text |-> "nan"]

\* a != b of Python on the values of the model: two values differ when they
\* are not the same value, and NaN differs from every value, itself included
NotEqual(a, b) == a # b \/ a = NaN \/ b = NaN

\* list.index(x): the position of the first occurrence, counted from 1 here;
\* 0 stands for the ValueError of an absent x
Index(list, x) ==
    IF \E i \in 1..Len(list) : list[i] = x
    THEN CHOOSE i \in 1..Len(list) : list[i] = x /\ \A j \in 1..(i - 1) : list[j] # x
    ELSE 0

\* list.pop(index) on a position of the list: the list without it
Remove(list, index) == SubSeq(list, 1, index - 1) \o SubSeq(list, index + 1, Len(list))

\* the entries of a dict are <<key, value>> pairs, one pair per key
DictKeys(d) == { e[1] : e \in d }

\* d.get(key, default) on a dict given as a set of pairs
DictGet(d, key, default) ==
    IF key \in DictKeys(d) THEN (CHOOSE e \in d : e[1] = key)[2] ELSE default

\* d[key] = value
DictSet(d, key, value) == { e \in d : e[1] # key } \cup { <<key, value>> }

\* dict(zip(keys, values)): zip stops with the shorter list, and of two
\* pairs with the same key the later one stays
DictZip(keys, values) ==
    LET n == Min(Len(keys), Len(values))
    IN  { <<keys[i], values[i]>> :
            i \in { i \in 1..n : \A j \in (i + 1)..n : keys[j] # keys[i] } }

\* Record.__getitem__: the value at the position of the first occurrence of
\* key; the ValueError of keys.index becomes KeyError
RecordGetItem(r, key) ==
    LET index == Index(r.keys, key)
    IN  IF index = 0 THEN Raised("KeyError")
        ELSE IF index > Len(r.values) THEN Raised("IndexError")
        ELSE Returned(r.values[index])

\* Record.__getattr__: __getitem__, KeyError becomes AttributeError
RecordGetAttr(r, key) ==
    LET v == RecordGetItem(r, key)
    IN  IF v.kind = "KeyError" THEN Raised("AttributeError") ELSE v

\* super().__setattr__(key, value) on one of the four slots
SetSlot(r, key, value) ==
    IF key = "_keys" THEN [r EXCEPT !.keys = value]
    ELSE IF key = "_values" THEN [r EXCEPT !.values = value]
    ELSE IF key = "_in_portal" THEN [r EXCEPT !.in_portal = value]
    ELSE [r EXCEPT !.modifications = value]

\* Faulty variant of __setitem__: the new value goes to _modifications but
\* not to _values.
RecordSetItemNoUpdate(r, key, value) ==
    IF key \notin Slots
    THEN IF Index(r.keys, key) = 0
         THEN [r |-> r, out |-> Raised("KeyError")]
         ELSE IF StartsWith(key, PORTAL_PREFIX)
         THEN [r |-> r, out |-> Raised("KeyError")]
         ELSE LET current == RecordGetItem(r, key)
              IN  IF current.kind # "returned"
                  THEN [r |-> r, out |-> current]
                  ELSE IF NotEqual(value, current.value)
                  THEN [r |-> [r EXCEPT !.modifications = DictSet(@, key, value)],
                        out |-> Returned(None)]
                  ELSE [r |-> r, out |-> Returned(None)]
    ELSE [r |-> SetSlot(r, key, value), out |-> Returned(None)]

\* Faulty variant of __setitem__: the portal prefix is not looked at.
RecordSetItemAnyKey(r, key, value) ==
    IF key \notin Slots
    THEN IF Index(r.keys, key) = 0
         THEN [r |-> r, out |-> Raised("KeyError")]
         ELSE LET current == RecordGetItem(r, key)
              IN  IF current.kind # "returned"
                  THEN [r |-> r, out |-> current]
                  ELSE IF NotEqual(value, current.value)
                  THEN [r |-> [r EXCEPT !.modifications = DictSet(@, key, value),
                                        !.values[Index(r.keys, key)] = value],
                        out |-> Returned(None)]
                  ELSE [r |-> r, out |-> Returned(None)]
    ELSE [r |-> SetSlot(r, key, value), out |-> Returned(None)]

\* Record.__setitem__: a name of __slots__ is set as an attribute. Any other
\* key must be one of keys() and must not start with the portal prefix; when
\* value != self[key] the value is stored in _modifications and written to
\* _values at the position of the key; otherwise nothing is done.
RecordSetItem(r, key, value) ==
    IF key \notin Slots
    THEN IF Index(r.keys, key) = 0
         THEN [r |-> r, out |-> Raised("KeyError")]
         ELSE IF StartsWith(key, PORTAL_PREFIX)
         THEN [r |-> r, out |-> Raised("KeyError")]
         ELSE LET current == RecordGetItem(r, key)
              IN  IF current.kind # "returned"
                  THEN [r |-> r, out |-> current]
                  ELSE IF NotEqual(value, current.value)
                  THEN [r |-> [r EXCEPT !.modifications = DictSet(@, key, value),
                                        !.values[Index(r.keys, key)] = value],
                        out |-> Returned(None)]
                  ELSE [r |-> r, out |-> Returned(None)]
    ELSE [r |-> SetSlot(r, key, value), out |-> Returned(None)]

\* Record.__setattr__: __setitem__, KeyError becomes AttributeError
RecordSetAttr(r, key, value) ==
    LET s == RecordSetItem(r, key, value)
    IN  IF s.out.kind = "KeyError" THEN [s EXCEPT !.out = Raised("AttributeError")] ELSE s

\* Record.modifications()
Modifications(r) == r.modifications

\* Record.is_dirty
IsDirty(r) == Cardinality(r.modifications) > 0

\* Record.keys()
Keys(r) == r.keys

\* Record.values()
Values(r) == r.values

\* int(value) of Python on the values of the model
IntOf(v) ==
    IF v.type = "int" THEN Returned(v)
    ELSE IF v.type = "str"
    THEN IF v.text \in IntLiterals THEN Returned(IntValue(v.text)) ELSE Raised("ValueError")
    ELSE IF v.type = "float"
    THEN IF v = NaN THEN Raised("ValueError") ELSE Returned(IntValue("42"))
    ELSE Raised("TypeError")

\* a property of Record that reads the field `field` as an attribute and
\* makes an int of it. When the property raises AttributeError, Python's
\* attribute lookup goes on with __getattr__ and the name of the property.
IntProperty(r, field, property) ==
    LET v == RecordGetAttr(r, field)
    IN  IF v.kind = "returned" THEN IntOf(v.value)
        ELSE IF v.kind = "AttributeError" THEN RecordGetAttr(r, property)
        ELSE v

\* Record.record_id
RecordId(r) == IntProperty(r, "recordId", "record_id")

\* Faulty variant of modification_id: _in_portal is not looked at.
ModificationIdOfAny(r) == IntProperty(r, "modId", "modification_id")

\* Record.modification_id
ModificationId(r) ==
    IF r.in_portal THEN Returned(None) ELSE IntProperty(r, "modId", "modification_id")

\* Faulty variant of to_dict: ignore_internal_ids drops recordId alone.
RecordToDictKeepModId(r, ignore_portals, ignore_internal_ids) ==
    LET zipped == DictZip(Keys(r), Values(r))
        out == IF ignore_portals
               THEN { e \in zipped : ~StartsWith(e[1], PORTAL_PREFIX) }
               ELSE zipped
    IN  IF ignore_internal_ids THEN { e \in out : e[1] # "recordId" } ELSE out

\* Record.to_dict
RecordToDict(r, ignore_portals, ignore_internal_ids) ==
    LET zipped == DictZip(Keys(r), Values(r))
        out == IF ignore_portals
               THEN { e \in zipped : ~StartsWith(e[1], PORTAL_PREFIX) }
               ELSE zipped
    IN  IF ignore_internal_ids THEN { e \in out : e[1] \notin {"recordId", "modId"} } ELSE out

\* Faulty variant of pop: the key is removed, its value stays.
RecordPopKeyOnly(r, key, default) ==
    LET v == RecordGetItem(r, key)
    IN  IF v.kind = "KeyError" THEN [r |-> r, out |-> Returned(default)]
        ELSE IF v.kind # "returned" THEN [r |-> r, out |-> v]
        ELSE [r |-> [r EXCEPT !.keys = Remove(@, Index(r.keys, key))], out |-> v]

\* Faulty variant of pop: the KeyError of an absent key is not caught.
RecordPopRaising(r, key, default) ==
    LET v == RecordGetItem(r, key)
    IN  IF v.kind # "returned" THEN [r |-> r, out |-> v]
        ELSE [r |-> [r EXCEPT !.keys = Remove(@, Index(r.keys, key)),
                              !.values = Remove(@, Index(r.keys, key))],
              out |-> v]

\* Faulty variant of pop: the entry of the key in _modifications is
\* discarded with the field.
RecordPopDiscarding(r, key, default) ==
    LET v == RecordGetItem(r, key)
    IN  IF v.kind = "KeyError" THEN [r |-> r, out |-> Returned(default)]
        ELSE IF v.kind # "returned" THEN [r |-> r, out |-> v]
        ELSE [r |-> [r EXCEPT !.keys = Remove(@, Index(r.keys, key)),
                              !.values = Remove(@, Index(r.keys, key)),
                              !.modifications = { e \in @ : e[1] # key }],
              out |-> v]

\* Record.pop: self[key], then the key and the value at keys.index(key) are
\* popped; KeyError and ValueError are answered with default
RecordPop(r, key, default) ==
    LET v == RecordGetItem(r, key)
    IN  IF v.kind = "KeyError" THEN [r |-> r, out |-> Returned(default)]
        ELSE IF v.kind # "returned" THEN [r |-> r, out |-> v]
        ELSE [r |-> [r EXCEPT !.keys = Remove(@, Index(r.keys, key)),
                              !.values = Remove(@, Index(r.keys, key))],
              out |-> v]

----------------------------------------------------------------------------
(* SpecRecordOps: one Record, read and written through its methods *)

\* the fields of a layout, in the order the server sends them
LayoutKeys == <<"name", "recordId", "modId", "portal_notes">>

\* the key lists of a mapping, no field name twice: up to MaxFields fields
\* of the layout, in its order
KeyLists ==
    { k \in SeqsUpTo(SampleKeys, MaxFields) :
        \A i, j \in 1..Len(k) : i < j => Index(LayoutKeys, k[i]) < Index(LayoutKeys, k[j]) }

\* the values of the fields in one row of the layout, as the server sends
\* them; "nan" is a string float() accepts
RowValue(key) ==
    IF key = "name" THEN Str("nan")
    ELSE IF key = "recordId" THEN Str("10")
    ELSE IF key = "modId" THEN Str("3")
    ELSE IF key = "record_id" THEN Str("42")
    ELSE Str("dummy")

\* the names the methods are called with: the sample field names and one
\* that no Record has
KeyArgs == SampleKeys \cup {"city"}

\* the values a field is set to, besides the value it has
SetValues == {Str("David"), Str("Caspar")}

\* the value of the field key of r, where there is one
Current(r, key) ==
    IF RecordGetItem(r, key).kind = "returned" THEN {RecordGetItem(r, key).value} ELSE {}

Accesses == {"item", "attr"}

InitRecordOps ==
    /\ \E keys \in KeyLists, type_conversion \in BOOLEAN :
          args = [ keys |-> keys,
                   values |-> [i \in 1..Len(keys) |-> RowValue(keys[i])],
                   in_portal |-> FALSE,
                   type_conversion |-> type_conversion,
                   dateutil |-> TRUE ]
    /\ record = NoRecord
    /\ last = NoLast
    /\ server = NoServer
    /\ response = NoResponse
    /\ portals = NoPortals
    /\ given = [records |-> <<>>, info |-> [supplied |-> FALSE, info |-> EmptyInfo]]
    /\ foundset = FoundsetInit(given.records, given.info)
    /\ its = [k \in Iters |-> NoIter]
    /\ hist = [k \in Iters |-> <<>>]
    /\ ret = [op |-> "init", arg |-> 0, out |-> Raise("none")]
    /\ run = NoRun

\* record[key] or record.key
Get(key, access) ==
    /\ record.state = "built"
    /\ last' = [NoLast EXCEPT !.op = "get", !.access = access, !.key = key,
                              !.before = record,
                              !.out = IF access = "item" THEN RecordGetItem(record, key)
                                      ELSE RecordGetAttr(record, key)]
    /\ UNCHANGED <<record, args, fsVars, run, server, mapVars>>

\* record[key] = value or record.key = value
Set(key, value, access) ==
    /\ record.state = "built"
    /\ LET s == IF access = "item" THEN RecordSetItem(record, key, value)
                ELSE RecordSetAttr(record, key, value)
       IN  /\ record' = s.r
           /\ last' = [NoLast EXCEPT !.op = "set", !.access = access, !.key = key,
                                     !.value = value, !.before = record, !.out = s.out]
    /\ UNCHANGED <<args, fsVars, run, server, mapVars>>

\* record.pop(key, default)
Pop(key, default) ==
    /\ record.state = "built"
    /\ LET s == RecordPop(record, key, default)
       IN  /\ record' = s.r
           /\ last' = [NoLast EXCEPT !.op = "pop", !.key = key, !.value = default,
                                     !.before = record, !.out = s.out]
    /\ UNCHANGED <<args, fsVars, run, server, mapVars>>

\* record.to_dict(ignore_portals, ignore_internal_ids)
ToDict(ignore_portals, ignore_internal_ids) ==
    /\ record.state = "built"
    /\ last' = [NoLast EXCEPT !.op = "to_dict",
                              !.opts = <<ignore_portals, ignore_internal_ids>>,
                              !.before = record,
                              !.out = Returned(RecordToDict(record, ignore_portals,
                                                            ignore_internal_ids))]
    /\ UNCHANGED <<record, args, fsVars, run, server, mapVars>>

NextRecordOps ==
    \/ Construct
    \/ \E key \in KeyArgs, access \in Accesses : Get(key, access)
    \/ \E key \in KeyArgs, access \in Accesses :
          \E value \in SetValues \cup Current(record, key) : Set(key, value, access)
    \/ \E key \in KeyArgs : Pop(key, Str("Caspar"))
    \/ \E ignore_portals \in BOOLEAN, ignore_internal_ids \in BOOLEAN :
          ToDict(ignore_portals, ignore_internal_ids)

SpecRecordOps == InitRecordOps /\ [][NextRecordOps]_vars

----------------------------------------------------------------------------
(* Properties of the Record *)

\* the position of the key of the last call in the Record it was made on
LastIndex == Index(last.before.keys, last.key)

\* the last call was record[key] = value or record.key = value on a field
\* of the Record that does not carry the portal prefix
SetOfKnownField ==
    /\ last.op = "set"
    /\ LastIndex > 0
    /\ ~StartsWith(last.key, PORTAL_PREFIX)

\* C11: after construction and after every get, set (by item or attribute),
\* pop and to_dict, succeeding or failing, keys() and values() have the same
\* length and each key is paired with its own value at the same position:
\* get and to_dict and every failing call leave keys and values as they
\* were, set changes no key and no value but the one of its key, and pop
\* takes out its key and the value at the position of the key, nothing else.
C11_KeysValuesPaired ==
    record.state = "built" =>
        /\ Len(Keys(record)) = Len(Values(record))
        /\ last.op \in {"get", "to_dict"} \/ (last.op # "none" /\ last.out.kind # "returned") =>
              Keys(record) = Keys(last.before) /\ Values(record) = Values(last.before)
        /\ last.op = "set" =>
              /\ Keys(record) = Keys(last.before)
              /\ \A j \in 1..Len(Values(last.before)) :
                    \/ Values(record)[j] = Values(last.before)[j]
                    \/ j = LastIndex /\ Values(record)[j] = last.value
        /\ last.op = "pop" =>
              \/ Keys(record) = Keys(last.before) /\ Values(record) = Values(last.before)
              \/ /\ LastIndex > 0
                 /\ Keys(record) = Remove(Keys(last.before), LastIndex)
                 /\ Values(record) = Remove(Values(last.before), LastIndex)

\* a field was set to a new value, then the field in front of it was popped
C11_Witness ==
    /\ last.op = "pop"
    /\ last.out.kind = "returned"
    /\ LastIndex = 1
    /\ Len(Keys(record)) = 1
    /\ IsDirty(record)
    /\ Keys(record)[1] \in DictKeys(Modifications(record))

\* C12: setting a known field without the portal prefix to the value it has
\* (record[f] = record[f], by item or attribute) is a no-op: is_dirty keeps
\* its value, modifications() is unchanged and no field value changes.
C12_SetSameIsNoOp ==
    SetOfKnownField /\ last.value = Values(last.before)[LastIndex] =>
        /\ IsDirty(record) = IsDirty(last.before)
        /\ Modifications(record) = Modifications(last.before)
        /\ Values(record) = Values(last.before)

\* C13: setting a known field f without the portal prefix to a value v that
\* is not its current one makes modifications()[f] v, record[f] v and
\* is_dirty true, and leaves every other field value and every other entry
\* of modifications() as it was.
C13_SetNewValue ==
    SetOfKnownField /\ last.value # Values(last.before)[LastIndex] =>
        /\ last.out = Returned(None)
        /\ \A e \in Modifications(record) : e[1] = last.key => e[2] = last.value
        /\ last.key \in DictKeys(Modifications(record))
        /\ RecordGetItem(record, last.key) = Returned(last.value)
        /\ IsDirty(record)
        /\ Keys(record) = Keys(last.before)
        /\ \A j \in 1..Len(Values(last.before)) :
              j # LastIndex => Values(record)[j] = Values(last.before)[j]
        /\ { e \in Modifications(record) : e[1] # last.key }
              = { e \in Modifications(last.before) : e[1] # last.key }

\* the second of two fields is set to a new value after the first was
C13_Witness ==
    /\ SetOfKnownField
    /\ last.value # Values(last.before)[LastIndex]
    /\ LastIndex = 2
    /\ IsDirty(last.before)
    /\ Cardinality(Modifications(record)) = 2

FieldsOf(r, ignore_portals, ignore_internal_ids) ==
    { <<Keys(r)[i], RecordGetItem(r, Keys(r)[i]).value>> :
        i \in { i \in 1..Len(Keys(r)) :
                  /\ ignore_portals => ~StartsWith(Keys(r)[i], PORTAL_PREFIX)
                  /\ ignore_internal_ids => Keys(r)[i] \notin {"recordId", "modId"} } }

\* C16: to_dict(ignore_portals=True) returns exactly the fields whose names
\* do not start with 'portal_', each with its current value; to_dict()
\* returns every field; ignore_internal_ids=True drops the keys recordId and
\* modId besides, and no other; no call of to_dict changes the Record.
C16_ToDict ==
    last.op = "to_dict" =>
        /\ last.out = Returned(FieldsOf(last.before, last.opts[1], last.opts[2]))
        /\ record = last.before

\* to_dict without the internal ids on a Record that has a modId and a
\* field set to a new value
C16_Witness ==
    /\ last.op = "to_dict"
    /\ last.opts[2]
    /\ Index(Keys(record), "modId") > 0
    /\ IsDirty(record)
    /\ Cardinality(last.out.value) = 1

\* C17: pop(f, default) never raises. When f is a field it returns the value
\* of f and removes that key and its value and nothing else: the other
\* fields keep their order and their values. When f is absent it returns
\* default and leaves the Record as it was.
C17_PopNeverRaises ==
    last.op = "pop" =>
        /\ last.out.kind = "returned"
        /\ IF LastIndex > 0
           THEN /\ last.out.value = Values(last.before)[LastIndex]
                /\ record = [last.before EXCEPT !.keys = Remove(@, LastIndex),
                                                !.values = Remove(@, LastIndex)]
           ELSE /\ last.out.value = last.value
                /\ record = last.before

\* the second of two fields was popped
C17_Witness ==
    /\ last.op = "pop"
    /\ LastIndex = 2
    /\ Len(Keys(record)) = 1
    /\ last.out = Returned(Values(last.before)[2])

----------------------------------------------------------------------------
(* fmrest/server.py: the calls of Server that take a Record *)

\* Server.__init__: no token, no error code, no script result, and the
\* headers _set_content_type() leaves
ServerInit ==
    [ token |-> None, last_fm_error |-> None, last_script_result |-> NoScriptResult,
      headers |-> {<<"Content-Type", Str("application/json")>>} ]

\* bool(value) of Python on the values of the model
Truthy(v) == v # None /\ v.text # "" /\ v # IntValue("0")

\* Server.last_error: the int of _last_fm_error, None when that is falsy
LastError(srv) ==
    IF Truthy(srv.last_fm_error) THEN IntOf(srv.last_fm_error).value ELSE None

\* Faulty variant of _update_token_header: the header of an earlier token is
\* not taken out when the Server has no token.
UpdateTokenHeaderSticky(srv) ==
    IF Truthy(srv.token)
    THEN [srv EXCEPT !.headers = DictSet(@, "Authorization", Str("Bearer " \o srv.token.text))]
    ELSE srv

\* Server._update_token_header
UpdateTokenHeader(srv) ==
    IF Truthy(srv.token)
    THEN [srv EXCEPT !.headers = DictSet(@, "Authorization", Str("Bearer " \o srv.token.text))]
    ELSE [srv EXCEPT !.headers = { e \in @ : e[1] # "Authorization" }]

\* what the network and the server make of one request: the request fails
\* (RequestException), or a reply comes back with the code of its first
\* message and, for a login, a token; response holds the script fields of
\* the response object of the body, data its data array
NoData == [present |-> FALSE, rows |-> <<>>]

Replies ==
    { [kind |-> "RequestException", code |-> None, token |-> None, response |-> {},
       data |-> NoData],
      [kind |-> "reply", code |-> Str("0"), token |-> Str("abc"), response |-> {},
       data |-> NoData],
      [kind |-> "reply", code |-> Str("101"), token |-> None, response |-> {},
       data |-> NoData] }

\* the script phases and the fields of the response that carry their error
\* and their result
ScriptPhases ==
    { <<"prerequest", "scriptError.prerequest", "scriptResult.prerequest">>,
      <<"presort", "scriptError.presort", "scriptResult.presort">>,
      <<"after", "scriptError", "scriptResult">> }

\* Faulty variant of _update_script_result: the phases the response says
\* nothing about keep what an earlier response left.
UpdateScriptResultMerging(srv, fms_response) ==
    { <<ph[1], << DictGet(fms_response, ph[2],
                          DictGet(srv.last_script_result, ph[1], <<None, None>>)[1]),
                  DictGet(fms_response, ph[3], None) >> >> : ph \in ScriptPhases }

\* Server._update_script_result: for every phase the pair of its error and
\* its result in this response, None where the response has no such field
UpdateScriptResult(srv, fms_response) ==
    { <<ph[1], << DictGet(fms_response, ph[2], None),
                  DictGet(fms_response, ph[3], None) >> >> : ph \in ScriptPhases }

\* Server.last_script_result: of the phases whose error is not None the
\* pair of int(error) and the result; empty before any response
LastScriptResult(srv) ==
    IF srv.last_script_result = {} THEN {}
    ELSE { <<e[1], << IntOf(e[2][1]).value, e[2][2] >> >> :
              e \in { e \in srv.last_script_result : e[2][1] # None } }

\* the request as the HTTP library gets it: with the headers of the Server
Sent(request, headers) ==
    [ method |-> request.method, path |-> request.path, record_id |-> request.record_id,
      data |-> request.data, mod_id |-> request.mod_id, auth |-> request.auth,
      headers |-> headers ]

\* Faulty variant of _call_filemaker: a message code other than 0 raises
\* nothing.
CallFilemakerNoRaise(srv, request, reply) ==
    LET sending == UpdateTokenHeader(srv)
        sent == << Sent(request, sending.headers) >>
        answered == [sending EXCEPT
                        !.last_script_result = UpdateScriptResult(sending, reply.response),
                        !.last_fm_error = reply.code]
    IN  IF reply.kind \in {"RequestException", "BadJSON"}
        THEN [srv |-> sending, requests |-> sent, out |-> Raised(reply.kind)]
        ELSE [srv |-> [answered EXCEPT !.headers = DictSet(@, "Content-Type",
                                                          Str("application/json"))],
              requests |-> sent, out |-> Returned(reply)]

\* Server._call_filemaker: the token header is brought up to date and the
\* request is sent; of the reply the script results and the code of the
\* first message are kept, and FileMakerError is raised when last_error is
\* not 0; after that the content type is set back. A reply that is no JSON
\* raises BadJSON and leaves the Server as it was when sending. request
\* holds the method, the path, the record id of the path, the data and
\* whether the credentials go with it.
CallFilemaker(srv, request, reply) ==
    LET sending == UpdateTokenHeader(srv)
        sent == << Sent(request, sending.headers) >>
        answered == [sending EXCEPT
                        !.last_script_result = UpdateScriptResult(sending, reply.response),
                        !.last_fm_error = reply.code]
    IN  IF reply.kind \in {"RequestException", "BadJSON"}
        THEN [srv |-> sending, requests |-> sent, out |-> Raised(reply.kind)]
        ELSE IF LastError(answered) # IntValue("0")
        THEN [srv |-> answered, requests |-> sent, out |-> Raised("FileMakerError")]
        ELSE [srv |-> [answered EXCEPT !.headers = DictSet(@, "Content-Type",
                                                          Str("application/json"))],
              requests |-> sent, out |-> Returned(reply)]

\* Faulty variant of login: the token of the response is not stored.
ServerLoginNoToken(srv, reply) ==
    CallFilemaker(srv, [method |-> "POST", path |-> <<"sessions", Str("")>>,
                        record_id |-> None, data |-> {},
                        mod_id |-> None, auth |-> TRUE], reply)

\* Server.login
ServerLogin(srv, reply) ==
    LET c == CallFilemaker(srv, [method |-> "POST", path |-> <<"sessions", Str("")>>,
                                 record_id |-> None, data |-> {},
                                 mod_id |-> None, auth |-> TRUE], reply)
    IN  IF c.out.kind # "returned" THEN c
        ELSE [c EXCEPT !.srv.token = reply.token, !.out = Returned(reply.token)]

\* Server.delete_record
ServerDeleteRecord(srv, record_id, reply) ==
    LET c == CallFilemaker(srv, [method |-> "DELETE", path |-> <<"records", None>>,
                                 record_id |-> record_id, data |-> {},
                                 mod_id |-> None, auth |-> FALSE], reply)
    IN  IF c.out.kind # "returned" THEN c
        ELSE [c EXCEPT !.out = Returned(LastError(c.srv) = IntValue("0"))]

\* Server.delete: the AttributeError of record.record_id becomes
\* RecordError, any other exception of it passes
ServerDelete(srv, r, reply) ==
    LET id == RecordId(r)
    IN  IF id.kind = "AttributeError"
        THEN [srv |-> srv, requests |-> <<>>, out |-> Raised("RecordError")]
        ELSE IF id.kind # "returned"
        THEN [srv |-> srv, requests |-> <<>>, out |-> id]
        ELSE ServerDeleteRecord(srv, id.value, reply)

\* Server.edit_record: modId is part of the data when mod_id is truthy
ServerEditRecord(srv, record_id, field_data, mod_id, reply) ==
    LET c == CallFilemaker(srv, [method |-> "PATCH", path |-> <<"records", None>>,
                                 record_id |-> record_id, data |-> field_data,
                                 mod_id |-> IF Truthy(mod_id) THEN mod_id ELSE None,
                                 auth |-> FALSE], reply)
    IN  IF c.out.kind # "returned" THEN c
        ELSE [c EXCEPT !.out = Returned(LastError(c.srv) = IntValue("0"))]

\* Server.edit: record.modification_id is read when validate_mod_id is set,
\* then record.record_id and record.modifications()
ServerEdit(srv, r, validate_mod_id, reply) ==
    LET mod_id == IF validate_mod_id THEN ModificationId(r) ELSE Returned(None)
        id == RecordId(r)
    IN  IF mod_id.kind # "returned"
        THEN [srv |-> srv, requests |-> <<>>, out |-> mod_id]
        ELSE IF id.kind # "returned"
        THEN [srv |-> srv, requests |-> <<>>, out |-> id]
        ELSE ServerEditRecord(srv, id.value, Modifications(r), mod_id.value, reply)

----------------------------------------------------------------------------
(* SpecServer: a Server and a Record made by hand, edited and deleted *)

\* the fields of a layout that has a field of its own for a record id
ServerLayoutKeys == <<"name", "record_id", "recordId", "modId">>

ServerKeyLists ==
    { k \in SeqsUpTo({"name", "record_id", "recordId", "modId"}, MaxFields) :
        \A i, j \in 1..Len(k) :
            i < j => Index(ServerLayoutKeys, k[i]) < Index(ServerLayoutKeys, k[j]) }

InitServer ==
    /\ \E keys \in ServerKeyLists, in_portal \in BOOLEAN :
          args = [ keys |-> keys,
                   values |-> [i \in 1..Len(keys) |-> RowValue(keys[i])],
                   in_portal |-> in_portal,
                   type_conversion |-> FALSE,
                   dateutil |-> TRUE ]
    /\ record = NoRecord
    /\ last = NoLast
    /\ server = ServerInit
    /\ response = NoResponse
    /\ portals = NoPortals
    /\ given = [records |-> <<>>, info |-> [supplied |-> FALSE, info |-> EmptyInfo]]
    /\ foundset = FoundsetInit(given.records, given.info)
    /\ its = [k \in Iters |-> NoIter]
    /\ hist = [k \in Iters |-> <<>>]
    /\ ret = [op |-> "init", arg |-> 0, out |-> Raise("none")]
    /\ run = NoRun

\* server.login()
Login(reply) ==
    /\ LET c == ServerLogin(server, reply)
       IN  /\ server' = c.srv
           /\ last' = [NoLast EXCEPT !.op = "login", !.before = record, !.srv = server,
                                     !.requests = c.requests, !.out = c.out]
    /\ UNCHANGED <<record, args, fsVars, run, mapVars>>

\* server.delete(record)
Delete(reply) ==
    /\ record.state = "built"
    /\ LET c == ServerDelete(server, record, reply)
       IN  /\ server' = c.srv
           /\ last' = [NoLast EXCEPT !.op = "delete", !.before = record, !.srv = server,
                                     !.requests = c.requests, !.out = c.out]
    /\ UNCHANGED <<record, args, fsVars, run, mapVars>>

\* server.edit(record, validate_mod_id)
Edit(validate_mod_id, reply) ==
    /\ record.state = "built"
    /\ LET c == ServerEdit(server, record, validate_mod_id, reply)
       IN  /\ server' = c.srv
           /\ last' = [NoLast EXCEPT !.op = "edit", !.opts = <<validate_mod_id>>,
                                     !.before = record, !.srv = server,
                                     !.requests = c.requests, !.out = c.out]
    /\ UNCHANGED <<record, args, fsVars, run, mapVars>>

NextServer ==
    \/ Construct
    \/ Set("name", Str("Caspar"), "item")
    \/ \E reply \in Replies : Login(reply)
    \/ \E reply \in Replies : Delete(reply)
    \/ \E validate_mod_id \in BOOLEAN, reply \in Replies : Edit(validate_mod_id, reply)

SpecServer == InitServer /\ [][NextServer]_vars

\* C15: Server.delete(record) and Server.edit(record) with a Record made by
\* hand that has no recordId field fail with an error, RecordError for
\* delete, before any HTTP request is sent; last_error, the session token
\* and the Record stay as they were.
C15_NoRecordIdNoRequest ==
    last.op \in {"delete", "edit"} /\ Index(Keys(last.before), "recordId") = 0 =>
        /\ last.out.kind # "returned"
        /\ last.op = "delete" => last.out.kind = "RecordError"
        /\ last.requests = <<>>
        /\ LastError(server) = LastError(last.srv)
        /\ server.token = last.srv.token
        /\ record = last.before

----------------------------------------------------------------------------
(* fmrest/server.py: _process_foundset_response *)

\* A dict of the response keeps the order of its keys: it is a sequence of
\* <<key, value>> pairs, one pair per key.
\* Faulty variant of the assignment: the pair is added at the end also when
\* the dict has the key.
OrderedSetAppend(d, key, value) == Append(d, <<key, value>>)

\* d[key] = value: the value of a key the dict has is replaced where it
\* stands, a new key goes to the end
OrderedSet(d, key, value) ==
    IF \E i \in 1..Len(d) : d[i][1] = key
    THEN [i \in 1..Len(d) |-> IF d[i][1] = key THEN <<key, value>> ELSE d[i]]
    ELSE Append(d, <<key, value>>)

\* the Foundset object of the portal `name` of row p, as a value of a Record
FoundsetRef(p, name) == [type |-> "Foundset", text |-> name, row |-> p]

\* entry.get('portalObjectName', entry['table']): the default is evaluated
\* before get is called, so an entry without the key table raises KeyError,
\* with an object name or without
PortalIdentifier(entry) ==
    IF "table" \notin DictKeys(entry)
    THEN [kind |-> "KeyError", value |-> ""]
    ELSE [kind |-> "returned",
          value |-> DictGet(entry, "portalObjectName", DictGet(entry, "table", ""))]

\* record.get('portalDataInfo', []): the entries, none when the key is absent
InfoEntries(row) ==
    IF row.portalDataInfo.present THEN row.portalDataInfo.entries ELSE <<>>

\* portal_info: every entry of portalDataInfo under the object name of its
\* portal, or under its table where it has no object name; a later entry
\* replaces an earlier one of the same name. The KeyError of an entry ends
\* the loop.
PortalInfo(row) ==
    LET entries == InfoEntries(row)
        name(i) == PortalIdentifier(entries[i]).value
    IN  IF \E i \in 1..Len(entries) : PortalIdentifier(entries[i]).kind # "returned"
        THEN [kind |-> "KeyError", value |-> {}]
        ELSE [kind |-> "returned",
              value |-> { <<name(i), entries[i]>> :
                            i \in { i \in 1..Len(entries) :
                                      \A j \in (i + 1)..Len(entries) : name(j) # name(i) } }]

\* Record(list(row), list(row.values()), in_portal=True, type_conversion)
\* for one nested row of a portal
MapNested(nested, type_conversion) ==
    RecordInit([ keys |-> [i \in 1..Len(nested) |-> nested[i][1]],
                 values |-> [i \in 1..Len(nested) |-> nested[i][2]],
                 in_portal |-> TRUE,
                 type_conversion |-> type_conversion,
                 dateutil |-> TRUE ])

\* Faulty variant: the Records of the portal are built and cached when the
\* row is mapped.
PortalFoundsetEager(row, j, type_conversion) ==
    LET rows == row.portalData[j][2]
    IN  [ FoundsetInit(<<>>, [supplied |-> TRUE,
                              info |-> DictGet(PortalInfo(row).value, row.portalData[j][1],
                                               EmptyInfo)])
          EXCEPT !.cache.values = [i \in 1..Len(rows) |-> MapNested(rows[i], type_conversion)] ]

\* Foundset(related_records, portal_info.get(portal_name, {})) for the j-th
\* portal of a row: the generator yields one Record per nested row, in order
PortalFoundset(row, j, type_conversion) ==
    LET rows == row.portalData[j][2]
    IN  FoundsetInit([i \in 1..Len(rows) |-> MapNested(rows[i], type_conversion)],
                     [supplied |-> TRUE,
                      info |-> DictGet(PortalInfo(row).value, row.portalData[j][1], EmptyInfo)])

\* Faulty variant of the loop body: recordId and modId of the row are taken
\* for one another.
MapRowIdsSwapped(row, p, type_conversion) ==
    LET field_data == OrderedSet(OrderedSet(row.fieldData, "recordId", row.modId),
                                 "modId", row.recordId)
    IN  RecordInit([ keys |-> [i \in 1..Len(field_data) |-> field_data[i][1]] \o
                              [j \in 1..Len(row.portalData) |->
                                  PORTAL_PREFIX \o row.portalData[j][1]],
                     values |-> [i \in 1..Len(field_data) |-> field_data[i][2]] \o
                                [j \in 1..Len(row.portalData) |->
                                    FoundsetRef(p, row.portalData[j][1])],
                     in_portal |-> FALSE,
                     type_conversion |-> type_conversion,
                     dateutil |-> TRUE ])

\* the body of the loop of _process_foundset_response for the row at
\* position p: recordId and modId of the row are written into fieldData,
\* keys and values are those of fieldData, followed by one key with the
\* portal prefix and one Foundset for every portal of portalData. The
\* KeyError of an entry of portalDataInfo leaves the generator.
MapRow(row, p, type_conversion) ==
    LET field_data == OrderedSet(OrderedSet(row.fieldData, "recordId", row.recordId),
                                 "modId", row.modId)
    IN  IF PortalInfo(row).kind # "returned"
        THEN [NoRecord EXCEPT !.state = "raised", !.raised = PortalInfo(row).kind]
        ELSE
        RecordInit([ keys |-> [i \in 1..Len(field_data) |-> field_data[i][1]] \o
                              [j \in 1..Len(row.portalData) |->
                                  PORTAL_PREFIX \o row.portalData[j][1]],
                     values |-> [i \in 1..Len(field_data) |-> field_data[i][2]] \o
                                [j \in 1..Len(row.portalData) |->
                                    FoundsetRef(p, row.portalData[j][1])],
                     in_portal |-> FALSE,
                     type_conversion |-> type_conversion,
                     dateutil |-> TRUE ])

\* Faulty variant of the generator: the rows are walked from the last to
\* the first.
ProcessFoundsetResponseReversed(resp) ==
    [p \in 1..Len(resp.data) |->
        MapRow(resp.data[Len(resp.data) + 1 - p], Len(resp.data) + 1 - p,
               resp.type_conversion)]

\* _process_foundset_response: the generator yields one Record per row of
\* data, in the order of data; given as the sequence of what it will yield
ProcessFoundsetResponse(resp) ==
    [p \in 1..Len(resp.data) |-> MapRow(resp.data[p], p, resp.type_conversion)]

----------------------------------------------------------------------------
(* SpecMapper: a response mapped to a Foundset of Records with portals *)

\* the record ids of the rows of a response, by position
RecordIds == <<"10", "42", "101", "3">>

\* the nested rows of the portal notes; the second carries ids of its own
NotesRows ==
    << << <<"note", Str("hi")>> >>,
       << <<"note", Str("42")>>, <<"recordId", Str("42")>>, <<"modId", Str("3")>> >> >>

RowKinds == {"plain", "own_id", "portal"}

\* the row at position p of data: a plain row, a row of a layout that has
\* fields named recordId and modId of its own, or a row with the portal notes
SampleRow(kind, p) ==
    [ fieldData |-> IF kind = "own_id"
                    THEN << <<"recordId", Str("abc")>>, <<"name", Str("David")>>,
                            <<"modId", Str("xyz")>> >>
                    ELSE << <<"name", Str("David")>> >>,
      recordId |-> Str(RecordIds[p]),
      modId |-> Str("3"),
      portalData |-> IF kind = "portal" THEN << <<"notes", NotesRows>> >> ELSE <<>>,
      portalDataInfo |-> IF kind = "portal"
                         THEN [present |-> TRUE,
                               entries |-> << {<<"table", "Notes">>,
                                               <<"portalObjectName", "notes">>} >>]
                         ELSE [present |-> FALSE, entries |-> <<>>] ]

\* the portals of the response: <<q, name>> for every portal of row q
PortalRefs(resp) ==
    UNION { { <<q, resp.data[q].portalData[j][1]>> : j \in 1..Len(resp.data[q].portalData) } :
            q \in 1..Len(resp.data) }

\* the position of the portal `name` in the portalData of row
PortalIndex(row, name) ==
    CHOOSE j \in 1..Len(row.portalData) : row.portalData[j][1] = name

PortalNames == {"notes"}

\* python-dateutil is installed wherever type_conversion is turned on here
InitMapper ==
    /\ \E n \in 0..MaxN, type_conversion \in BOOLEAN :
          \E kinds \in [1..n -> RowKinds] :
              response = [ data |-> [q \in 1..n |-> SampleRow(kinds[q], q)],
                           type_conversion |-> type_conversion ]
    /\ given = [ records |-> ProcessFoundsetResponse(response),
                 info |-> [supplied |-> TRUE, info |-> EmptyInfo] ]
    /\ foundset = FoundsetInit(given.records, given.info)
    /\ portals = [ ref \in PortalRefs(response) |->
                     PortalFoundset(response.data[ref[1]],
                                    PortalIndex(response.data[ref[1]], ref[2]),
                                    response.type_conversion) ]
    /\ its = [k \in Iters |-> NoIter]
    /\ hist = [k \in Iters |-> <<>>]
    /\ ret = [op |-> "init", arg |-> 0, out |-> Raise("none")]
    /\ run = NoRun
    /\ args = NoArgs
    /\ record = NoRecord
    /\ last = NoLast
    /\ server = NoServer

\* the Records mapped so far: the cache of the mapped Foundset
Mapped == foundset.cache.values

\* list(foundset)
List ==
    /\ LET d == Drain(foundset, FoundsetIter(foundset), <<>>)
       IN  /\ foundset' = d.f
           /\ ret' = [op |-> "list", arg |-> 0, out |-> [kind |-> "list", item |-> d.rows]]
    /\ UNCHANGED <<given, its, hist, run, args, record, opVars, mapVars>>

\* foundset[q - 1]['portal_' + name][index], on a row mapped before
PortalGetItem(q, name, index) ==
    /\ q <= Len(Mapped)
    /\ LET v == RecordGetItem(Mapped[q], PORTAL_PREFIX \o name)
       IN  /\ v.kind = "returned"
           /\ v.value.type = "Foundset"
           /\ LET ref == <<v.value.row, v.value.text>>
                  r == FoundsetGetItem(portals[ref], index)
              IN  /\ portals' = [portals EXCEPT ![ref] = r.f]
                  /\ ret' = [op |-> "portal_getitem", arg |-> <<q, name, index>>,
                             out |-> r.out]
    /\ UNCHANGED <<given, foundset, its, hist, run, args, record, opVars, response>>

\* list(foundset[q - 1]['portal_' + name]), on a row mapped before
PortalList(q, name) ==
    /\ q <= Len(Mapped)
    /\ LET v == RecordGetItem(Mapped[q], PORTAL_PREFIX \o name)
       IN  /\ v.kind = "returned"
           /\ v.value.type = "Foundset"
           /\ LET ref == <<v.value.row, v.value.text>>
                  d == Drain(portals[ref], FoundsetIter(portals[ref]), <<>>)
              IN  /\ portals' = [portals EXCEPT ![ref] = d.f]
                  /\ ret' = [op |-> "portal_list", arg |-> <<q, name>>,
                             out |-> [kind |-> "list", item |-> d.rows]]
    /\ UNCHANGED <<given, foundset, its, hist, run, args, record, opVars, response>>

NextMapper ==
    \/ NewIter(1)
    \/ Next(1)
    \/ \E index \in 0..(MaxN - 1) : GetItem(index)
    \/ List
    \/ \E q \in 1..MaxN, name \in PortalNames, index \in 0..(Len(NotesRows) - 1) :
          PortalGetItem(q, name, index)
    \/ \E q \in 1..MaxN, name \in PortalNames : PortalList(q, name)

SpecMapper == InitMapper /\ [][NextMapper]_vars

----------------------------------------------------------------------------
(* Properties of the mapped response *)

\* the row at position q of the response, as the server sent it
Row(q) == response.data[q]

\* the Record the mapper makes of the row at position q
RecordOfRow(q) == MapRow(Row(q), q, response.type_conversion)

\* the nested rows of the portal ref = <<q, name>>
NestedRows(ref) == Row(ref[1]).portalData[PortalIndex(Row(ref[1]), ref[2])][2]

\* the Record the mapper makes of the i-th nested row of the portal ref
RecordOfNested(ref, i) == MapNested(NestedRows(ref)[i], response.type_conversion)

\* C18: with type conversion off, the Record of every mapped row has the
\* int of the recordId of the row as record_id, the int of the modId of the
\* row as modification_id, and record[f] is fieldData[f] for every field f
\* of the fieldData of the row.
C18_RowMapped ==
    ~response.type_conversion =>
        \A q \in 1..Len(Mapped) :
            /\ RecordId(Mapped[q]) = IntOf(Row(q).recordId)
            /\ ModificationId(Mapped[q]) = IntOf(Row(q).modId)
            /\ \A i \in 1..Len(Row(q).fieldData) :
                  RecordGetItem(Mapped[q], Row(q).fieldData[i][1])
                      = Returned(Row(q).fieldData[i][2])

\* the names the row-level ids are written under
IdFields == {"recordId", "modId"}

\* C18, amended: with type conversion off, the Record of every mapped row
\* has the int of the recordId of the row as record_id, the int of the modId
\* of the row as modification_id, and record[f] is fieldData[f] for every
\* field f of the fieldData of the row other than recordId and modId.
C18_RowMappedButIds ==
    ~response.type_conversion =>
        \A q \in 1..Len(Mapped) :
            /\ RecordId(Mapped[q]) = IntOf(Row(q).recordId)
            /\ ModificationId(Mapped[q]) = IntOf(Row(q).modId)
            /\ \A i \in 1..Len(Row(q).fieldData) :
                  Row(q).fieldData[i][1] \notin IdFields =>
                      RecordGetItem(Mapped[q], Row(q).fieldData[i][1])
                          = Returned(Row(q).fieldData[i][2])

\* a row with a field of its own named recordId was mapped, type conversion
\* off, and the Record has the name of the row and the ids of the row
C18_Witness ==
    /\ ~response.type_conversion
    /\ Len(Mapped) >= 1
    /\ Row(1).fieldData[1] = <<"recordId", Str("abc")>>
    /\ RecordGetItem(Mapped[1], "name") = Returned(Str("David"))
    /\ RecordId(Mapped[1]) = Returned(IntValue("10"))
    /\ ModificationId(Mapped[1]) = Returned(IntValue("3"))

\* for every portal P of a mapped row, record['portal_' + P] is a Foundset,
\* and a list made of it holds one Record per nested row, each with the
\* fields of its nested row and their values and with modification_id None
PortalRecordsAsRows ==
    /\ \A q \in 1..Len(Mapped) : \A j \in 1..Len(Row(q).portalData) :
          RecordGetItem(Mapped[q], PORTAL_PREFIX \o Row(q).portalData[j][1])
              = Returned(FoundsetRef(q, Row(q).portalData[j][1]))
    /\ ret.op = "portal_list" =>
          LET nested == NestedRows(<<ret.arg[1], ret.arg[2]>>)
              made == ret.out.item
          IN  /\ Len(made) = Len(nested)
              /\ \A i \in 1..Len(nested) :
                    /\ made[i].state = "built"
                    /\ \A f \in 1..Len(nested[i]) :
                          RecordGetItem(made[i], nested[i][f][1]) = Returned(nested[i][f][2])
                    /\ ModificationId(made[i]) = Returned(None)

RowOf(item) == CHOOSE q \in 1..Len(response.data) : RecordOfRow(q) = item

\* C20: the i-th Record of a mapped Foundset is the Record of the i-th row
\* of data, and the j-th Record of a portal Foundset is the Record of the
\* j-th nested row of the portal, whatever was accessed before and however:
\* the Records stand in the Foundset in the order of the rows, foundset[i]
\* returns the Record of row i, a list of the Foundset is the list of the
\* Records of all rows in their order, and what an iterator yields are
\* Records of rows in increasing order of the rows.
C20_RowOrder ==
    /\ \A i \in 1..Len(Mapped) : Mapped[i] = RecordOfRow(i)
    /\ ret.op = "getitem" /\ ret.out.kind = "item" => ret.out.item = RecordOfRow(ret.arg + 1)
    /\ ret.op = "list" =>
          ret.out.item = [q \in 1..Len(response.data) |-> RecordOfRow(q)]
    /\ \A m \in 1..Len(hist[1]) :
          /\ \E q \in 1..Len(response.data) : hist[1][m] = RecordOfRow(q)
          /\ \A k \in 1..(m - 1) : RowOf(hist[1][k]) < RowOf(hist[1][m])
    /\ \A ref \in DOMAIN portals : \A j \in 1..Len(portals[ref].cache.values) :
          portals[ref].cache.values[j] = RecordOfNested(ref, j)
    /\ ret.op = "portal_getitem" /\ ret.out.kind = "item" =>
          ret.out.item = RecordOfNested(<<ret.arg[1], ret.arg[2]>>, ret.arg[3] + 1)
    /\ ret.op = "portal_list" =>
          ret.out.item = [j \in 1..Len(NestedRows(<<ret.arg[1], ret.arg[2]>>)) |->
                             RecordOfNested(<<ret.arg[1], ret.arg[2]>>, j)]

\* the second row was indexed first, then the first, with no iterator and
\* no list made; the first row has a portal whose second row was indexed
\* before its first
C20_Witness ==
    /\ ret.op = "portal_getitem"
    /\ ret.arg = <<1, "notes", 0>>
    /\ ret.out = Yield(RecordOfNested(<<1, "notes">>, 1))
    /\ Len(portals[<<1, "notes">>].cache.values) = 2
    /\ ~IsComplete(portals[<<1, "notes">>])
    /\ Len(Mapped) = 2
    /\ ~IsComplete(foundset)
    /\ its[1].kind = "none"
    /\ RecordOfRow(1) # RecordOfRow(2)

\* the value a Record holds for a value it is constructed with
Held(value) ==
    IF response.type_conversion /\ value.type = "str"
    THEN ConvertStringType(value, TRUE).value
    ELSE value

\* C24: a row whose fieldData has a field named recordId or modId is mapped
\* to a Record, with the keys of fieldData as they are; the Record has
\* exactly one field of that name, its value is the row-level value, not
\* the one of fieldData, and record_id and modification_id are the ints of
\* the row-level ids.
C24_CollisionLastWriteWins ==
    \A q \in 1..Len(Mapped) : \A i \in 1..Len(Row(q).fieldData) :
        Row(q).fieldData[i][1] \in IdFields =>
            LET name == Row(q).fieldData[i][1]
                rowLevel == IF name = "recordId" THEN Row(q).recordId ELSE Row(q).modId
            IN  /\ Mapped[q].state = "built"
                /\ \A k \in 1..Len(Row(q).fieldData) :
                      Keys(Mapped[q])[k] = Row(q).fieldData[k][1]
                /\ Cardinality({ k \in 1..Len(Keys(Mapped[q])) : Keys(Mapped[q])[k] = name }) = 1
                /\ RecordGetItem(Mapped[q], name) = Returned(Held(rowLevel))
                /\ RecordId(Mapped[q]) = IntOf(Row(q).recordId)
                /\ ModificationId(Mapped[q]) = IntOf(Row(q).modId)

\* a row with fields of its own named recordId and modId was mapped: the
\* Record has the ids of the row under these names
C24_Witness ==
    /\ Len(Mapped) >= 1
    /\ Row(1).fieldData[1] = <<"recordId", Str("abc")>>
    /\ Row(1).fieldData[3] = <<"modId", Str("xyz")>>
    /\ Keys(Mapped[1]) = <<"recordId", "name", "modId">>
    /\ RecordGetItem(Mapped[1], "recordId") = Returned(Held(Str("10")))
    /\ RecordGetItem(Mapped[1], "modId") = Returned(Held(Str("3")))

\* the number of Records the generator of the portal ref has made
PortalMade(ref) == Len(NestedRows(ref)) - Len(portals[ref].records)

\* C21: foundset[i] makes the Records of the rows up to i that were not made
\* before and no Record of a later row, and it makes no Record of any
\* portal; a Record of a portal is made only by indexing or iterating the
\* Foundset of that portal, and none is made when the row is mapped.
C21_Lazy ==
    /\ \A ref \in DOMAIN portals : PortalMade(ref) = 0
    /\ [][ /\ ret'.op = "getitem" =>
                 /\ Pulled' = Max(Pulled, Min(ret'.arg + 1, N))
                 /\ \A ref \in DOMAIN portals : PortalMade(ref)' = PortalMade(ref)
           /\ \A ref \in DOMAIN portals :
                 PortalMade(ref)' # PortalMade(ref) =>
                     /\ ret'.op \in {"portal_getitem", "portal_list"}
                     /\ <<ret'.arg[1], ret'.arg[2]>> = ref ]_vars

\* the first of two rows was indexed: one Record was made, and none of the
\* two nested rows of its portal
C21_Witness ==
    /\ ret.op = "getitem"
    /\ ret.arg = 0
    /\ ret.out.kind = "item"
    /\ N = 2
    /\ Pulled = 1
    /\ <<1, "notes">> \in DOMAIN portals
    /\ Len(NestedRows(<<1, "notes">>)) = 2
    /\ PortalMade(<<1, "notes">>) = 0

----------------------------------------------------------------------------
(* SpecPortalInfo: the info of the portal Foundset of one mapped row *)

\* the most entries a portalDataInfo has here
MaxEntries == 2

\* the shapes of an entry of portalDataInfo: a named portal object with its
\* table, an unnamed portal (the table only), an object name and no table,
\* another portal, and a portal object named unlike its table
InfoEntryShapes ==
    { {<<"table", "Notes">>, <<"portalObjectName", "notes">>, <<"foundCount", "2">>},
      {<<"table", "notes">>, <<"foundCount", "2">>},
      {<<"portalObjectName", "notes">>, <<"foundCount", "2">>},
      {<<"table", "Other">>, <<"portalObjectName", "other">>, <<"foundCount", "7">>},
      {<<"table", "notes">>, <<"portalObjectName", "other">>, <<"foundCount", "7">>} }

\* the portalDataInfo of a row: absent, or a list of entries
PortalDataInfos ==
    { [present |-> FALSE, entries |-> <<>>] } \cup
    { [present |-> TRUE, entries |-> e] : e \in SeqsUpTo(InfoEntryShapes, MaxEntries) }

\* a row with the one portal `name` in its portalData
PortalRow(name, portalDataInfo) ==
    [ fieldData |-> << <<"name", Str("David")>> >>,
      recordId |-> Str("10"),
      modId |-> Str("3"),
      portalData |-> << <<name, NotesRows>> >>,
      portalDataInfo |-> portalDataInfo ]

InitPortalInfo ==
    /\ \E name \in {"notes", "other"}, info \in PortalDataInfos, type_conversion \in BOOLEAN :
          response = [ data |-> << PortalRow(name, info) >>,
                       type_conversion |-> type_conversion ]
    /\ record = NoRecord
    /\ portals = NoPortals
    /\ given = [records |-> <<>>, info |-> [supplied |-> FALSE, info |-> EmptyInfo]]
    /\ foundset = FoundsetInit(given.records, given.info)
    /\ its = [k \in Iters |-> NoIter]
    /\ hist = [k \in Iters |-> <<>>]
    /\ ret = [op |-> "init", arg |-> 0, out |-> Raise("none")]
    /\ run = NoRun
    /\ args = NoArgs
    /\ last = NoLast
    /\ server = NoServer

\* next(_process_foundset_response(response)), as get_record does: the first
\* row is mapped, with the Foundset of its portal; an exception leaves no
\* Record and no Foundset
MapFirstRow ==
    /\ record.state = "unbuilt"
    /\ record' = MapRow(response.data[1], 1, response.type_conversion)
    /\ portals' = IF record'.state = "built"
                  THEN [ ref \in PortalRefs(response) |->
                           PortalFoundset(response.data[1],
                                          PortalIndex(response.data[1], ref[2]),
                                          response.type_conversion) ]
                  ELSE NoPortals
    /\ UNCHANGED <<fsVars, run, args, opVars, response>>

NextPortalInfo == MapFirstRow

SpecPortalInfo == InitPortalInfo /\ [][NextPortalInfo]_vars

\* an entry describes the portal P: by its object name, or by its table
\* where it has no object name
Describes(entry, P) ==
    IF "portalObjectName" \in DictKeys(entry)
    THEN DictGet(entry, "portalObjectName", "") = P
    ELSE "table" \in DictKeys(entry) /\ DictGet(entry, "table", "") = P

\* the positions of the entries of the mapped row that describe the portal P
Describing(P) ==
    { i \in 1..Len(InfoEntries(Row(1))) : Describes(InfoEntries(Row(1))[i], P) }

\* C28: the info of the Foundset of the portal P of a mapped row is the entry
\* of portalDataInfo whose portalObjectName is P, or whose table is P where
\* the entry has no portalObjectName; it is the empty mapping when no entry
\* describes P or portalDataInfo is absent; for every shape of entry,
\* an entry with portalObjectName and without table included
C28_PortalInfoOfEntry ==
    record.state # "unbuilt" =>
        /\ record.state = "built"
        /\ \A ref \in PortalRefs(response) :
              /\ Describing(ref[2]) = {} => Info(portals[ref]) = EmptyInfo
              /\ \A i \in Describing(ref[2]) :
                    Describing(ref[2]) = {i} => Info(portals[ref]) = InfoEntries(Row(1))[i]

\* the same for the rows whose entries all have the key table
C28_WithTable ==
    (\A i \in 1..Len(InfoEntries(Row(1))) : "table" \in DictKeys(InfoEntries(Row(1))[i]))
        => C28_PortalInfoOfEntry

----------------------------------------------------------------------------
(* SpecRemap: one decoded response mapped twice, each mapping consumed *)

\* field_data = record['fieldData']; field_data['recordId'] = ...;
\* field_data['modId'] = ...: field_data is the dict of the decoded body, so
\* the row of the body has the two ids in its fieldData afterwards
InjectIds(row) ==
    [row EXCEPT !.fieldData = OrderedSet(OrderedSet(row.fieldData, "recordId", row.recordId),
                                         "modId", row.modId)]

\* response is the decoded body the caller holds
InitRemap ==
    /\ \E n \in 0..MaxN, type_conversion \in BOOLEAN :
          \E kinds \in [1..n -> RowKinds] :
              response = [ data |-> [q \in 1..n |-> SampleRow(kinds[q], q)],
                           type_conversion |-> type_conversion ]
    /\ run = [prog |-> "remap", pc |-> "start", round |-> 1, first |-> <<>>, second |-> <<>>]
    /\ given = [records |-> <<>>, info |-> [supplied |-> FALSE, info |-> EmptyInfo]]
    /\ foundset = FoundsetInit(given.records, given.info)
    /\ its = [k \in Iters |-> NoIter]
    /\ hist = [k \in Iters |-> <<>>]
    /\ ret = [op |-> "init", arg |-> 0, out |-> Raise("none")]
    /\ args = NoArgs
    /\ record = NoRecord
    /\ last = NoLast
    /\ server = NoServer
    /\ portals = NoPortals

\* the Records collected in this round
Round == IF run.round = 1 THEN run.first ELSE run.second

\* list(server._process_foundset_response(response)): the generator object is
\* made, none of its body has run
RemapBegin ==
    /\ run.prog = "remap" /\ run.pc = "start"
    /\ run' = [run EXCEPT !.pc = "loop"]
    /\ UNCHANGED <<fsVars, args, record, opVars, mapVars>>

\* next() on the generator: the next row of data gets the ids written into
\* its fieldData and is yielded as a Record; after the last row the
\* generator returns and list() with it
RemapStep ==
    /\ run.prog = "remap" /\ run.pc = "loop"
    /\ LET p == Len(Round) + 1
       IN  IF p > Len(response.data)
           THEN /\ run' = RoundOver
                /\ response' = response
           ELSE /\ response' = [response EXCEPT !.data[p] = InjectIds(@)]
                /\ run' = Collected(MapRow(response.data[p], p, response.type_conversion))
    /\ UNCHANGED <<fsVars, args, record, opVars, portals>>

NextRemap ==
    \/ RemapBegin
    \/ RemapStep

SpecRemap == InitRemap /\ [][NextRemap]_vars

\* C23: mapping is pure: no step of mapping and consuming changes the
\* decoded body (every row's fieldData keeps exactly its keys and values),
\* and the second mapping of the same response yields Records with the same
\* keys and values as the first
C23_PureMapping ==
    /\ [][response' = response]_vars
    /\ [](run.pc = "done" => run.first = run.second)

\* the second mapping yields what the first yielded, one Record per row
C23_SameRecords ==
    run.pc = "done" =>
        /\ run.first = run.second
        /\ Len(run.first) = Len(response.data)
        /\ \A p \in 1..Len(run.first) : run.first[p].state = "built"

----------------------------------------------------------------------------
(* fmrest/server.py: the session, and the calls that fetch records *)

\* Faulty variant of logout: the token stays where it is.
ServerLogoutKeepToken(srv, reply) ==
    LET c == CallFilemaker(srv, [method |-> "DELETE", path |-> <<"sessions", srv.token>>,
                                 record_id |-> None, data |-> {},
                                 mod_id |-> None, auth |-> FALSE], reply)
    IN  IF c.out.kind # "returned" THEN c
        ELSE [c EXCEPT !.out = Returned(LastError(c.srv) = IntValue("0"))]

\* Faulty variant of logout: the token is discarded when the request has
\* returned, and kept when it raised.
ServerLogoutClearOnReturn(srv, reply) ==
    LET c == CallFilemaker(srv, [method |-> "DELETE", path |-> <<"sessions", srv.token>>,
                                 record_id |-> None, data |-> {},
                                 mod_id |-> None, auth |-> FALSE], reply)
    IN  IF c.out.kind # "returned" THEN c
        ELSE [c EXCEPT !.srv.token = Str(""),
                       !.out = Returned(LastError(c.srv) = IntValue("0"))]

\* Server.logout: the path names the token, the token is set to '' before
\* the request is sent, and the result is last_error == 0
ServerLogout(srv, reply) ==
    LET c == CallFilemaker([srv EXCEPT !.token = Str("")],
                           [method |-> "DELETE", path |-> <<"sessions", srv.token>>,
                            record_id |-> None, data |-> {},
                            mod_id |-> None, auth |-> FALSE], reply)
    IN  IF c.out.kind # "returned" THEN c
        ELSE [c EXCEPT !.out = Returned(LastError(c.srv) = IntValue("0"))]

\* next(self._process_foundset_response(response)): the generator runs up to
\* its first yield; response['data'] raises KeyError when the response has
\* no data, and a generator that ends without a yield raises StopIteration
FirstMapped(data, type_conversion) ==
    IF ~data.present THEN Raised("KeyError")
    ELSE IF data.rows = <<>> THEN Raised("StopIteration")
    ELSE LET r == MapRow(data.rows[1], 1, type_conversion)
         IN  IF r.state = "built"
             THEN Returned([type |-> "Record", text |-> data.rows[1].recordId.text])
             ELSE Raised(r.raised)

\* Server.get_record
ServerGetRecord(srv, record_id, type_conversion, reply) ==
    LET c == CallFilemaker(srv, [method |-> "GET", path |-> <<"records", None>>,
                                 record_id |-> record_id, data |-> {},
                                 mod_id |-> None, auth |-> FALSE], reply)
    IN  IF c.out.kind # "returned" THEN c
        ELSE [c EXCEPT !.out = FirstMapped(reply.data, type_conversion)]

\* Foundset(self._process_foundset_response(response), info): the call of
\* the generator function makes a generator and runs none of its body, so
\* the Foundset is returned whatever the response holds
UnstartedFoundset == Returned([type |-> "Foundset", text |-> "unstarted"])

\* Server.get_records
ServerGetRecords(srv, reply) ==
    LET c == CallFilemaker(srv, [method |-> "GET", path |-> <<"records", None>>,
                                 record_id |-> None, data |-> {},
                                 mod_id |-> None, auth |-> FALSE], reply)
    IN  IF c.out.kind # "returned" THEN c
        ELSE [c EXCEPT !.out = UnstartedFoundset]

\* Server.find
ServerFind(srv, query, reply) ==
    LET c == CallFilemaker(srv, [method |-> "POST", path |-> <<"_find", None>>,
                                 record_id |-> None, data |-> query,
                                 mod_id |-> None, auth |-> FALSE], reply)
    IN  IF c.out.kind # "returned" THEN c
        ELSE [c EXCEPT !.out = UnstartedFoundset]

\* Server.fetch_file: a GET of the url of the file with no headers of the
\* Server; the reply is not read as a reply of the Data API
ServerFetchFile(srv, reply) ==
    [ srv |-> srv,
      requests |-> << [ method |-> "get", path |-> <<"file", None>>, record_id |-> None,
                        data |-> {}, mod_id |-> None, auth |-> FALSE, headers |-> {} ] >>,
      out |-> IF reply.kind = "RequestException" THEN Raised("RequestException")
              ELSE Returned(Str("file")) ]

----------------------------------------------------------------------------
(* SpecSession: one Server over a session: login, calls, logout, with *)

\* the script fields a response carries: none, those of a script run after
\* the request, those of a prerequest script and of a presort script that
\* left no result
ScriptFieldSets ==
    { {},
      { <<"scriptError", Str("0")>>, <<"scriptResult", Str("ok")>> },
      { <<"scriptError.prerequest", Str("0")>>, <<"scriptResult.prerequest", Str("pre")>>,
        <<"scriptError.presort", Str("3")>> } }

\* the data array of a response that has one
DataRows == << SampleRow("plain", 1) >>

\* the replies that are no response of the Data API
FailedReplies ==
    { [kind |-> k, code |-> None, token |-> None, response |-> {}, data |-> NoData] :
        k \in {"RequestException", "BadJSON"} }

\* the responses with a message code other than 0: record is missing (101),
\* invalid Data API token (952)
ErrorReplies ==
    { [kind |-> "reply", code |-> Str(c), token |-> None, response |-> s, data |-> NoData] :
        c \in {"101", "952"}, s \in ScriptFieldSets }

\* what a login is answered with
LoginReplies ==
    FailedReplies \cup ErrorReplies \cup
    { [kind |-> "reply", code |-> Str("0"), token |-> Str(t), response |-> {},
       data |-> NoData] : t \in {"abc", "def"} }

\* what a call for records is answered with: a response with code 0 has the
\* data array, or lacks it
DataReplies ==
    FailedReplies \cup ErrorReplies \cup
    { [kind |-> "reply", code |-> Str("0"), token |-> None, response |-> s, data |-> d] :
        s \in ScriptFieldSets, d \in {NoData, [present |-> TRUE, rows |-> DataRows]} }

\* what a logout is answered with
LogoutReplies == { r \in DataReplies : ~r.data.present }

\* what the GET of a file is answered with
FileReplies ==
    { [kind |-> k, code |-> None, token |-> None, response |-> {}, data |-> NoData] :
        k \in {"RequestException", "file"} }

SessionOps == {"login", "logout", "get_record", "get_records", "find", "fetch_file"}

RepliesTo(op) ==
    CASE op = "login" -> LoginReplies
      [] op = "logout" -> LogoutReplies
      [] op = "fetch_file" -> FileReplies
      [] OTHER -> DataReplies

\* the call op of the Server, answered with reply
SessionCall(srv, op, reply) ==
    CASE op = "login" -> ServerLogin(srv, reply)
      [] op = "logout" -> ServerLogout(srv, reply)
      [] op = "get_record" -> ServerGetRecord(srv, Str("1"), FALSE, reply)
      [] op = "get_records" -> ServerGetRecords(srv, reply)
      [] op = "find" -> ServerFind(srv, {<<"name", Str("David")>>}, reply)
      [] op = "fetch_file" -> ServerFetchFile(srv, reply)

\* run.pc tells whether the program is inside a `with server:` block
InitSession ==
    /\ server = ServerInit
    /\ last = NoLast
    /\ run = [prog |-> "with", pc |-> "outside", round |-> 0, first |-> <<>>, second |-> <<>>]
    /\ record = NoRecord
    /\ args = NoArgs
    /\ response = NoResponse
    /\ portals = NoPortals
    /\ given = [records |-> <<>>, info |-> [supplied |-> FALSE, info |-> EmptyInfo]]
    /\ foundset = FoundsetInit(given.records, given.info)
    /\ its = [k \in Iters |-> NoIter]
    /\ hist = [k \in Iters |-> <<>>]
    /\ ret = [op |-> "init", arg |-> 0, out |-> Raise("none")]

\* a call on the Server, inside a with block or outside
Call(op, reply) ==
    /\ LET c == SessionCall(server, op, reply)
       IN  /\ server' = c.srv
           /\ last' = [NoLast EXCEPT !.op = op, !.opts = <<reply>>, !.srv = server,
                                     !.requests = c.requests, !.out = c.out]
    /\ UNCHANGED <<fsVars, run, args, record, mapVars>>

\* with server: __enter__ returns the Server
WithEnter ==
    /\ run.pc = "outside"
    /\ run' = [run EXCEPT !.pc = "body"]
    /\ UNCHANGED <<fsVars, args, record, opVars, mapVars>>

\* the with block is left, by the end of its body or by an exception of it:
\* __exit__ calls logout() and returns None, so an exception of the body
\* goes on, unless logout raises one of its own
WithExit(how, reply) ==
    /\ run.pc = "body"
    /\ run' = [run EXCEPT !.pc = "outside"]
    /\ LET c == ServerLogout(server, reply)
       IN  /\ server' = c.srv
           /\ last' = [NoLast EXCEPT !.op = "exit", !.key = how, !.opts = <<reply>>,
                                     !.srv = server, !.requests = c.requests,
                                     !.out = IF c.out.kind = "returned" /\ how = "raised"
                                             THEN Raised("Exception") ELSE c.out]
    /\ UNCHANGED <<fsVars, args, record, mapVars>>

NextSession ==
    \/ \E op \in SessionOps : \E reply \in RepliesTo(op) : Call(op, reply)
    \/ WithEnter
    \/ \E how \in {"normal", "raised"}, reply \in LogoutReplies : WithExit(how, reply)

SpecSession == InitSession /\ [][NextSession]_vars

----------------------------------------------------------------------------
(* Properties of the session *)

\* the calls that go through _call_filemaker, the logout of __exit__ among them
ApiOps == {"login", "logout", "exit", "get_record", "get_records", "find"}

\* what the last call was answered with
LastReply == last.opts[1]

\* the last call received a decodable response of the Data API
Answered == last.op \in ApiOps /\ LastReply.kind = "reply"

\* C22: when a response with code 0 lacks the data array, get_record,
\* get_records and find raise the error of the missing array at the call
\* itself: no Foundset is handed to the caller, the error is not deferred
C22_MissingDataSurfaces ==
    (/\ last.op \in {"get_record", "get_records", "find"}
     /\ Answered
     /\ LastReply.code = Str("0")
     /\ ~LastReply.data.present)
        => last.out.kind = "KeyError"

\* get_record raises at the call
C22_GetRecordSurfaces ==
    last.op = "get_record" /\ Answered /\ LastReply.code = Str("0") /\ ~LastReply.data.present
        => last.out.kind = "KeyError"

C26_ExitLogsOut ==
    last.op = "exit" =>
        /\ Len(last.requests) = 1
        /\ last.requests[1].method = "DELETE"
        /\ last.requests[1].path = <<"sessions", last.srv.token>>
        /\ ~Truthy(server.token)

C26_Witness ==
    /\ last.op = "exit"
    /\ last.key = "raised"
    /\ last.srv.token = Str("abc")
    /\ last.requests[1].path = <<"sessions", Str("abc")>>
    /\ server.token = Str("")

\* the header Authorization of a request, None where it has none
Authorization(request) == DictGet(request.headers, "Authorization", None)

\* the request carries 'Bearer ' + t exactly when t is not empty
BearerIff(request, t) ==
    IF Truthy(t) THEN Authorization(request) = Str("Bearer " \o t.text)
                 ELSE Authorization(request) = None

\* the stored token is the token of the latest successful login that no
\* logout has followed: a login that returns stores the token of its
\* response, a logout stores '', and no other call changes the token
TokenOfLatestLogin ==
    /\ server.token = None
    /\ [][ /\ last'.op = "login" /\ last'.out.kind = "returned" =>
                 server'.token = last'.opts[1].token
           /\ last'.op \in {"logout", "exit"} => server'.token = Str("")
           /\ ~(last'.op = "login" /\ last'.out.kind = "returned")
                 /\ last'.op \notin {"logout", "exit"} => server'.token = server.token ]_vars

\* C29: every request the Server sends carries Authorization: 'Bearer ' + t
\* exactly when the stored token t is not empty when it is sent, t being the
\* token of the latest successful login that no logout has followed; the
\* request of a logout carries no Authorization and names the token in its
\* path
C29_BearerOnEveryRequest ==
    /\ TokenOfLatestLogin
    /\ [](\A i \in 1..Len(last.requests) :
            IF last.op \in {"logout", "exit"}
            THEN /\ Authorization(last.requests[i]) = None
                 /\ last.requests[i].path = <<"sessions", last.srv.token>>
            ELSE BearerIff(last.requests[i], last.srv.token))

\* C29, amended: the same of every request sent through _call_filemaker;
\* the GET of fetch_file has no header of the Server
C29_BearerOnApiRequests ==
    /\ TokenOfLatestLogin
    /\ [](\A i \in 1..Len(last.requests) :
            IF last.op \in {"logout", "exit"}
            THEN /\ Authorization(last.requests[i]) = None
                 /\ last.requests[i].path = <<"sessions", last.srv.token>>
            ELSE IF last.op = "fetch_file"
            THEN last.requests[i].headers = {}
            ELSE BearerIff(last.requests[i], last.srv.token))

C29_Witness ==
    /\ last.op = "find"
    /\ last.srv.token = Str("def")
    /\ Len(last.requests) = 1
    /\ Authorization(last.requests[1]) = Str("Bearer def")

\* the phases whose script error is in the response, each with the pair of
\* int(error) and the result, None where the response has no result
ScriptsOf(fms_response) ==
    { << ph[1], << IntValue(DictGet(fms_response, ph[2], None).text),
                   DictGet(fms_response, ph[3], None) >> >> :
        ph \in { ph \in ScriptPhases : ph[2] \in DictKeys(fms_response) } }

\* C30: after a call that received a decodable response, returned or
\* FileMakerError raised, last_script_result has exactly the phases whose
\* script error is in that response, each as [int(error), result], and
\* nothing of an earlier response
C30_ScriptResultOfLatest ==
    Answered => LastScriptResult(server) = ScriptsOf(LastReply.response)

C30_Witness ==
    /\ Answered
    /\ last.out.kind = "FileMakerError"
    /\ LastScriptResult(last.srv) = { <<"after", <<IntValue("0"), Str("ok")>> >> }
    /\ LastScriptResult(server) = { <<"prerequest", <<IntValue("0"), Str("pre")>> >>,
                                    <<"presort", <<IntValue("3"), None>> >> }

----------------------------------------------------------------------------
(* SpecRelogin: calls of a Server with the setting auto_relogin *)

\* Server._with_auto_relogin around the call op: without auto_relogin the
\* call is made as it is. With it, a FileMakerError of the call with
\* last_error 952 makes the Server drop its token, log in and make the call
\* once more; an error of the login or of the second call goes to the
\* caller. first, relogin and second are the replies to the three requests.
WithAutoRelogin(srv, auto_relogin, op, first, relogin, second) ==
    LET call == SessionCall(srv, op, first)
        login == ServerLogin([call.srv EXCEPT !.token = None], relogin)
        again == SessionCall(login.srv, op, second)
    IN  IF ~auto_relogin
           \/ call.out.kind # "FileMakerError"
           \/ LastError(call.srv) # IntValue("952")
        THEN call
        ELSE IF login.out.kind # "returned"
        THEN [login EXCEPT !.requests = call.requests \o login.requests]
        ELSE [again EXCEPT !.requests = call.requests \o login.requests \o again.requests]

\* the calls made here
ReloginOps == {"get_record", "find"}

\* what a call is answered with: no answer, no JSON, record is missing (101),
\* invalid token (952), or code 0 with the data array or without it
CallReplies == { r \in DataReplies : r.response = {} }

\* what a login is answered with: no answer, no JSON, invalid user or
\* password (212), or code 0 with a token
ReloginReplies ==
    { r \in LoginReplies : r.kind # "reply" \/ r.code = Str("0") } \cup
    { [kind |-> "reply", code |-> Str("212"), token |-> None, response |-> {},
       data |-> NoData] }

\* a reply that stands for a request that is never sent
Unsent == [kind |-> "unsent", code |-> None, token |-> None, response |-> {}, data |-> NoData]

\* run.pc holds the setting auto_relogin of the Server
AutoRelogin == run.pc = "auto_relogin"

InitRelogin ==
    /\ server = ServerInit
    /\ last = NoLast
    /\ \E pc \in {"auto_relogin", "no_relogin"} :
          run = [prog |-> "relogin", pc |-> pc, round |-> 0, first |-> <<>>, second |-> <<>>]
    /\ record = NoRecord
    /\ args = NoArgs
    /\ response = NoResponse
    /\ portals = NoPortals
    /\ given = [records |-> <<>>, info |-> [supplied |-> FALSE, info |-> EmptyInfo]]
    /\ foundset = FoundsetInit(given.records, given.info)
    /\ its = [k \in Iters |-> NoIter]
    /\ hist = [k \in Iters |-> <<>>]
    /\ ret = [op |-> "init", arg |-> 0, out |-> Raise("none")]

\* the second and the third request are sent when the first is answered
\* with 952 and auto_relogin is set
Relogins(op, first) ==
    /\ AutoRelogin
    /\ SessionCall(server, op, first).out.kind = "FileMakerError"
    /\ first.code = Str("952")

\* a call of the Server that _with_auto_relogin wraps
WrappedCall(op, first, relogin, second) ==
    /\ IF Relogins(op, first)
       THEN relogin # Unsent /\ (second = Unsent <=> relogin.code # Str("0"))
       ELSE relogin = Unsent /\ second = Unsent
    /\ LET c == WithAutoRelogin(server, AutoRelogin, op, first, relogin, second)
       IN  /\ server' = c.srv
           /\ last' = [NoLast EXCEPT !.op = op, !.opts = <<first, relogin, second>>,
                                     !.srv = server, !.requests = c.requests, !.out = c.out]
    /\ UNCHANGED <<fsVars, run, args, record, mapVars>>

NextRelogin ==
    \/ \E reply \in ReloginReplies : Call("login", reply)
    \/ \E op \in ReloginOps, first \in CallReplies,
          relogin \in ReloginReplies \cup {Unsent}, second \in CallReplies \cup {Unsent} :
          WrappedCall(op, first, relogin, second)

SpecRelogin == InitRelogin /\ [][NextRelogin]_vars

\* the requests of the last call that are logins
LoginRequests ==
    { i \in 1..Len(last.requests) :
        last.requests[i].method = "POST" /\ last.requests[i].path[1] = "sessions" }

\* the last call was a wrapped call whose request was answered with 952
Answered952 ==
    /\ last.op \in ReloginOps
    /\ last.opts[1].kind = "reply"
    /\ last.opts[1].code = Str("952")

C27_WitnessDisabled ==
    /\ ~AutoRelogin
    /\ Answered952
    /\ last.srv.token = Str("abc")
    /\ last.out.kind = "FileMakerError"
    /\ Len(last.requests) = 1

----------------------------------------------------------------------------
(* SpecEdit: a Record of a layout, changed through its methods and written
   back with Server.edit, any number of times *)

\* the fields of the rows that are edited, in the order the server sends them
EditLayoutKeys == <<"name", "recordId", "modId">>

\* the key lists of the edited Records: any fields of the layout, in its order
EditKeyLists ==
    { k \in SeqsUpTo({"name", "recordId", "modId"}, Len(EditLayoutKeys)) :
        \A i, j \in 1..Len(k) :
            i < j => Index(EditLayoutKeys, k[i]) < Index(EditLayoutKeys, k[j]) }

\* the modification ids of the rows: a record never modified since its
\* creation has modId 0
RowModIds == {Str("0"), Str("3")}

\* the names the record is written and popped with: a field, and a name no
\* Record has
EditKeyArgs == {"name", "city"}

InitEdit ==
    /\ \E keys \in EditKeyLists, modId \in RowModIds,
          in_portal \in BOOLEAN, type_conversion \in BOOLEAN :
          args = [ keys |-> keys,
                   values |-> [i \in 1..Len(keys) |->
                                  IF keys[i] = "modId" THEN modId ELSE RowValue(keys[i])],
                   in_portal |-> in_portal,
                   type_conversion |-> type_conversion,
                   dateutil |-> TRUE ]
    /\ record = NoRecord
    /\ last = NoLast
    /\ server = ServerInit
    /\ response = NoResponse
    /\ portals = NoPortals
    /\ given = [records |-> <<>>, info |-> [supplied |-> FALSE, info |-> EmptyInfo]]
    /\ foundset = FoundsetInit(given.records, given.info)
    /\ its = [k \in Iters |-> NoIter]
    /\ hist = [k \in Iters |-> <<>>]
    /\ ret = [op |-> "init", arg |-> 0, out |-> Raise("none")]
    /\ run = NoRun

NextEdit ==
    \/ Construct
    \/ \E key \in EditKeyArgs, access \in Accesses :
          \E value \in SetValues \cup Current(record, key) \cup {RowValue(key)} :
              Set(key, value, access)
    \/ \E key \in EditKeyArgs : Pop(key, Str("Caspar"))
    \/ \E ignore_portals \in BOOLEAN, ignore_internal_ids \in BOOLEAN :
          ToDict(ignore_portals, ignore_internal_ids)
    \/ \E validate_mod_id \in BOOLEAN, reply \in Replies : Edit(validate_mod_id, reply)

SpecEdit == InitEdit /\ [][NextEdit]_vars

\* C31: Server.edit(record, validate_mod_id=True) sends the modification id
\* of the record as modId in the edit request for every top-level record,
\* a record with modification id 0 included; with validate_mod_id=False no
\* modId is sent.
C31_ModIdSent ==
    (last.op = "edit" /\ last.requests # <<>> /\ ~last.before.in_portal) =>
        last.requests[1].mod_id = IF last.opts[1]
                                  THEN ModificationId(last.before).value
                                  ELSE None

\* the part of C31 the code keeps: a modification id other than 0 is sent
\* under validate_mod_id, and none without it
C31_NonZeroModIdSent ==
    (last.op = "edit" /\ last.requests # <<>> /\ ~last.before.in_portal) =>
        last.requests[1].mod_id =
            IF last.opts[1] /\ ModificationId(last.before).value # IntValue("0")
            THEN ModificationId(last.before).value
            ELSE None

\* an edit under validate_mod_id of a top-level record with modification
\* id 0 has sent its request
C31_ZeroEdited ==
    /\ last.op = "edit" /\ last.requests # <<>> /\ ~last.before.in_portal
    /\ last.opts[1]
    /\ ModificationId(last.before) = Returned(IntValue("0"))

\* the fields an edit has to send after one more step, given the ones it
\* had to send before: an assignment that succeeded and that differs(value,
\* then-current value) puts the field and the value in, nothing else changes
ToSend(differs(_, _), sending, r, l) ==
    IF l.op = "set" /\ l.out.kind = "returned" /\ l.key \notin Slots
       /\ differs(l.value, RecordGetItem(r, l.key).value)
    THEN DictSet(sending, l.key, l.value)
    ELSE sending

\* two values are different values
Different(a, b) == a # b

\* C32: Server.edit(record) sends as fieldData exactly the fields that were
\* assigned, since the construction of the record, a value different from
\* their then-current value, each with its latest assigned value; fields
\* never assigned, or only ever assigned their current value, are not sent.
\* Step by step: a new record has nothing to send, every step changes
\* modifications() as ToSend says, and the request of an edit carries
\* modifications() as its fieldData.
C32_SendsAssigned ==
    [][ /\ record.state = "unbuilt" /\ record'.state = "built" =>
              Modifications(record') = {}
        /\ record.state = "built" =>
              Modifications(record') = ToSend(Different, Modifications(record), record, last')
        /\ last'.op = "edit" /\ last'.requests # <<>> =>
              last'.requests[1].data = Modifications(record) ]_vars

\* the part of C32 the code keeps: the same with Python's != deciding what
\* a different value is
C32_SendsUnequal ==
    [][ /\ record.state = "unbuilt" /\ record'.state = "built" =>
              Modifications(record') = {}
        /\ record.state = "built" =>
              Modifications(record') = ToSend(NotEqual, Modifications(record), record, last')
        /\ last'.op = "edit" /\ last'.requests # <<>> =>
              last'.requests[1].data = Modifications(record) ]_vars

\* an edit has sent a field that was only ever assigned its current value
C32_SameValueSent ==
    /\ last.op = "edit" /\ last.requests # <<>>
    /\ last.requests[1].data = { <<"name", NaN>> }
    /\ RowValue("name") = Str("nan")

----------------------------------------------------------------------------
(* SpecFailing: one Foundset on a producer that raises at one of its rows *)

\* a Foundset on a producer that yields the items of records and raises
\* KeyError when it is asked for one more, as the generator of
\* _process_foundset_response does at a row without fieldData
FoundsetOnFailing(records, infoArg) ==
    [FoundsetInit(records, infoArg) EXCEPT !.raises = "KeyError"]

InitFailing ==
    /\ given \in [records : Sources, info : {[supplied |-> FALSE, info |-> EmptyInfo]}]
    /\ foundset = FoundsetOnFailing(given.records, given.info)
    /\ its = [k \in Iters |-> NoIter]
    /\ hist = [k \in Iters |-> <<>>]
    /\ ret = [op |-> "init", arg |-> 0, out |-> Raise("none")]
    /\ run = NoRun
    /\ args = NoArgs
    /\ record = NoRecord
    /\ last = NoLast
    /\ server = NoServer
    /\ response = NoResponse
    /\ portals = NoPortals

NextFailing ==
    \/ \E k \in Iters : NewIter(k)
    \/ \E k \in Iters : Next(k)
    \/ \E index \in Indices : GetItem(index)

SpecFailing == InitFailing /\ [][NextFailing]_vars

\* the producer has raised: the generator is finished without having
\* flagged the cache complete
ProducerRaised == foundset.iter = "finished" /\ ~foundset.cache.complete

\* C33: a failure of the producer is never turned into a normal end of
\* sequence. Once the producer has raised at a row, every later index
\* access at or past that row, and every later next() of an iterator that
\* has not failed itself and has no cached row left to yield, raises that
\* kind of error: not IndexError, not StopIteration.
C33_FailureStays ==
    [][ ProducerRaised =>
          /\ ret'.op = "getitem" /\ ret'.arg >= Len(foundset.cache.values) =>
                ret'.out.kind = "KeyError"
          /\ \A k \in Iters :
                ret'.op = "next" /\ ret'.arg = k /\ its[k].stage # "done"
                /\ ret'.out.kind # "item" =>
                    ret'.out.kind = "KeyError" ]_vars

\* the part of C33 the code keeps: the access that makes the producer raise
\* fails with the error of the producer
C33_FirstSurfaces ==
    [][ ~ProducerRaised /\ ProducerRaised' =>
          ret'.op \in {"getitem", "next"} /\ ret'.out.kind = "KeyError" ]_vars

\* after the producer has raised, an index access at the failing row has
\* raised IndexError
C33_IndexErrorAfterFailure ==
    /\ ProducerRaised
    /\ ret.op = "getitem" /\ ret.arg = Len(foundset.cache.values)
    /\ ret.out.kind = "IndexError"

\* after the producer has raised, an iteration has ended silently
C33_SilentEndAfterFailure ==
    /\ ProducerRaised
    /\ ret.op = "next" /\ ret.out.kind = "StopIteration"
    /\ Len(hist[ret.arg]) = Len(foundset.cache.values)

----------------------------------------------------------------------------
(* fmrest/server.py: upload_container and the Content-Type header *)

\* Python's False
False == [type |-> "bool", text |-> "False"]

\* d.pop(key) on a dict that has the key
DictPop(d, key) == { e \in d : e[1] # key }

\* Server._set_content_type: a str is set as Content-Type; False pops the
\* key from _headers, without a default, so that a missing key is a
\* KeyError; any other value is a ValueError
SetContentType(srv, type_) ==
    IF type_.type = "str"
    THEN [srv |-> [srv EXCEPT !.headers = DictSet(@, "Content-Type", type_)],
          raised |-> "none"]
    ELSE IF type_ = False
    THEN IF "Content-Type" \in DictKeys(srv.headers)
         THEN [srv |-> [srv EXCEPT !.headers = DictPop(@, "Content-Type")],
               raised |-> "none"]
         ELSE [srv |-> srv, raised |-> "KeyError"]
    ELSE [srv |-> srv, raised |-> "ValueError"]

\* Server.upload_container: the Content-Type is removed, then the file is
\* posted; _call_filemaker sets the Content-Type again when it returns
ServerUploadContainer(srv, record_id, field_name, reply) ==
    LET s == SetContentType(srv, False)
    IN  IF s.raised # "none"
        THEN [srv |-> s.srv, requests |-> <<>>, out |-> Raised(s.raised)]
        ELSE LET c == CallFilemaker(s.srv,
                                    [method |-> "POST", path |-> <<"containers", field_name>>,
                                     record_id |-> record_id, data |-> {},
                                     mod_id |-> None, auth |-> FALSE], reply)
             IN  IF c.out.kind # "returned" THEN c
                 ELSE [c EXCEPT !.out = Returned(LastError(c.srv) = IntValue("0"))]

----------------------------------------------------------------------------
(* SpecUpload: one Server; containers are uploaded between other calls *)

\* the calls made besides upload_container
UploadOps == {"login", "get_records", "logout"}

InitUpload ==
    /\ server = ServerInit
    /\ last = NoLast
    /\ run = NoRun
    /\ record = NoRecord
    /\ args = NoArgs
    /\ response = NoResponse
    /\ portals = NoPortals
    /\ given = [records |-> <<>>, info |-> [supplied |-> FALSE, info |-> EmptyInfo]]
    /\ foundset = FoundsetInit(given.records, given.info)
    /\ its = [k \in Iters |-> NoIter]
    /\ hist = [k \in Iters |-> <<>>]
    /\ ret = [op |-> "init", arg |-> 0, out |-> Raise("none")]

\* server.upload_container(10, 'photo', file)
UploadContainer(reply) ==
    /\ LET c == ServerUploadContainer(server, IntValue("10"), Str("photo"), reply)
       IN  /\ server' = c.srv
           /\ last' = [NoLast EXCEPT !.op = "upload_container", !.opts = <<reply>>,
                                     !.srv = server, !.requests = c.requests,
                                     !.out = c.out]
    /\ UNCHANGED <<fsVars, run, args, record, mapVars>>

NextUpload ==
    \/ \E op \in UploadOps : \E reply \in RepliesTo(op) : Call(op, reply)
    \/ \E reply \in LogoutReplies : UploadContainer(reply)

SpecUpload == InitUpload /\ [][NextUpload]_vars

\* the Content-Type a request was sent with, None when it had none
ContentType(request) == DictGet(request.headers, "Content-Type", None)

\* C34: after any sequence of successful and failed Server calls, a failed
\* upload_container call included, every request other than the request of
\* upload_container is sent with Content-Type: application/json, and an
\* upload_container call can still be issued: it sends its request.
C34_ContentTypeKept ==
    /\ last.op \in UploadOps =>
          \A i \in 1..Len(last.requests) :
              ContentType(last.requests[i]) = Str("application/json")
    /\ last.op = "upload_container" => Len(last.requests) = 1

\* the part of C34 the code keeps: the call after a call that returned
\* sends its request, with Content-Type: application/json unless it is an
\* upload
C34_AfterReturn ==
    [][ last.out.kind \in {"none", "returned"} =>
          /\ Len(last'.requests) = 1
          /\ ContentType(last'.requests[1]) =
                IF last'.op = "upload_container" THEN None
                ELSE Str("application/json") ]_vars

\* after an upload that failed, a request that is no upload has been sent
\* without a Content-Type
C34_SentWithoutContentType ==
    /\ last.op \in UploadOps /\ last.requests # <<>>
    /\ ContentType(last.requests[1]) = None

\* after an upload that failed, upload_container has raised KeyError before
\* sending anything
C34_UploadRaisesKeyError ==
    /\ last.op = "upload_container" /\ last.requests = <<>>
    /\ last.out.kind = "KeyError"

----------------------------------------------------------------------------
(* Order of iteration, checked under SpecFoundset *)

\* C35: an iterator obtained from a Foundset, interleaved in any way with
\* index accesses and with next() calls on other iterators, yields items in
\* strictly increasing source position: never the same item twice, never
\* out of source order.
C35_StrictlyIncreasing ==
    \A k \in Iters :
        \A i, j \in 1..Len(hist[k]) : i < j => hist[k][i] < hist[k][j]

\* two iterators of one Foundset have been advanced in turn, with index
\* accesses between their steps: one has yielded two items and the other
\* has ended after fewer
C35_Witness ==
    \E k, m \in Iters :
        /\ k # m
        /\ Len(hist[k]) >= 2 /\ hist[m] # <<>> /\ Len(hist[m]) < Len(hist[k])
        /\ its[m].stage = "done"
        /\ ret.op = "getitem"

----------------------------------------------------------------------------
(* modifications() and the fields of the Record, checked under SpecRecordOps *)

\* every key of modifications() names a field of r, with the value r has
\* for it
ModificationsCurrent(r) ==
    \A e \in Modifications(r) : RecordGetItem(r, e[1]) = Returned(e[2])

\* C36: in every state of a Record reachable by get, set and pop
\* operations, every key of modifications() names a current field of the
\* record and modifications()[f] is the value record[f].
C36_ModificationsCurrent ==
    record.state = "built" => ModificationsCurrent(record)

\* the part of C36 the code keeps: get, set and to_dict keep it
C36_KeptWithoutPop ==
    [][ record.state = "built" /\ ModificationsCurrent(record) /\ last'.op # "pop" =>
            ModificationsCurrent(record') ]_vars

\* a field that was set has been popped, and modifications() still has it
C36_PoppedStillModified ==
    /\ last.op = "pop" /\ last.out.kind = "returned"
    /\ last.key \in DictKeys(Modifications(record))
    /\ Index(Keys(record), last.key) = 0

----------------------------------------------------------------------------
(* modifications() over the life of a Record, checked under SpecEdit *)

\* C37: no operation ever removes an entry from modifications(): every key
\* of it stays through any later set (setting the field back to the value
\* it came with included), pop, to_dict and Server.edit, so that is_dirty,
\* once true, stays true, an edit leaves modifications() as it is, and an
\* edit that follows an edit sends the same fields again.
C37_ModificationsStay ==
    [][ /\ DictKeys(Modifications(record)) \subseteq DictKeys(Modifications(record'))
        /\ IsDirty(record) => IsDirty(record')
        /\ last'.op = "edit" => Modifications(record') = Modifications(record)
        /\ ( /\ last.op = "edit" /\ last.requests # <<>>
             /\ last'.op = "edit" /\ last'.requests # <<>> ) =>
                 last'.requests[1].data = last.requests[1].data ]_vars

\* a dirty record was written back with success, and the edit that
\* followed has sent the modified field once more, also after the field
\* was set and popped
C37_Witness ==
    /\ last.op = "edit" /\ last.out = Returned(TRUE) /\ last.requests # <<>>
    /\ last.srv.last_fm_error = Str("0")
    /\ "name" \in DictKeys(last.requests[1].data)
    /\ Index(Keys(record), "name") = 0
    /\ IsDirty(record)

----------------------------------------------------------------------------
(* The token after logout, checked under SpecSession *)

\* the calls that log out: logout() and the end of a with block
LogoutOps == {"logout", "exit"}

\* C38: after Server.logout() returns or raises, the stored session token
\* is empty: a logout whose request fails (FileMakerError, bad JSON or
\* transport error) discards the local token all the same. The call that
\* follows a logout sends no Authorization header, and when it is a logout
\* again it names no token in its path. (Entering a with block is no call.)
C38_TokenDiscarded ==
    [][ ~(run.pc = "outside" /\ run'.pc = "body") =>
          /\ last'.op \in LogoutOps => server'.token = Str("")
          /\ last.op \in LogoutOps =>
                \A i \in 1..Len(last'.requests) :
                    /\ Authorization(last'.requests[i]) = None
                    /\ last'.op \in LogoutOps =>
                          last'.requests[i].path = <<"sessions", Str("")>> ]_vars

\* a logout of a logged-in Server has raised, its token is gone
C38_Witness ==
    /\ last.op = "logout" /\ last.out.kind \in {"FileMakerError", "BadJSON", "RequestException"}
    /\ Truthy(last.srv.token)
    /\ server.token = Str("")

\* after a logout that raised, a call for records has been sent
C38_WitnessLater ==
    /\ last.op = "get_records" /\ last.requests # <<>>
    /\ last.srv.token = Str("") /\ last.srv.last_fm_error = Str("952")

----------------------------------------------------------------------------
(* Negative indices, checked under SpecFoundset *)

\* C39: indexing a Foundset with a negative index never advances the
\* producer and never changes the cache or the completion flag: it is
\* answered from the items cached so far, with the item counted from the
\* end of the cache, or raises IndexError when fewer items are cached,
\* also when the producer still has items left.
C39_NegativeIndexFrame ==
    [][ ret'.op = "getitem" /\ ret'.arg < 0 =>
          /\ foundset' = foundset
          /\ ret'.out = IF 0 - ret'.arg <= Len(foundset.cache.values)
                        THEN Yield(foundset.cache.values[
                                     Len(foundset.cache.values) + ret'.arg + 1])
                        ELSE Raise("IndexError") ]_vars

\* with one item cached and items left in the producer, foundset[-2] has
\* raised IndexError
C39_Witness ==
    /\ ret.op = "getitem" /\ ret.arg = 0 - 2 /\ ret.out.kind = "IndexError"
    /\ Len(foundset.cache.values) = 1
    /\ foundset.records # <<>>

\* with items cached, foundset[-1] has returned the last of them
C39_WitnessAnswered ==
    /\ ret.op = "getitem" /\ ret.arg = 0 - 1
    /\ Len(foundset.cache.values) >= 1
    /\ ret.out = Yield(foundset.cache.values[Len(foundset.cache.values)])
    /\ ~IsComplete(foundset)

----------------------------------------------------------------------------
(* fmrest/cloudserver.py: CloudServer *)

\* CloudServer.__init__: a Server with the attribute _fmid_token, None
CloudServerInit ==
    [ token |-> None, last_fm_error |-> None, last_script_result |-> NoScriptResult,
      headers |-> {<<"Content-Type", Str("application/json")>>}, fmid_token |-> None ]

\* what Cognito answers the authentication with: an id token, or the
\* exception of a rejected password
CognitoAnswers == { [raised |-> "none", id_token |-> Str("idtoken")],
                    [raised |-> "ClientError", id_token |-> None] }

\* CloudServer._update_token_header, which overrides the method of Server:
\* 'FMID ' and the FMID token when that is set, otherwise as Server does
CloudUpdateTokenHeader(srv) ==
    IF Truthy(srv.fmid_token)
    THEN [srv EXCEPT !.headers = DictSet(@, "Authorization",
                                         Str("FMID " \o srv.fmid_token.text))]
    ELSE UpdateTokenHeader(srv)

\* Server._call_filemaker on a CloudServer: self._update_token_header() is
\* the method of CloudServer, the rest is as in Server
CloudCallFilemaker(srv, request, reply) ==
    LET sending == CloudUpdateTokenHeader(srv)
        sent == << Sent(request, sending.headers) >>
        answered == [sending EXCEPT
                        !.last_script_result = UpdateScriptResult(sending, reply.response),
                        !.last_fm_error = reply.code]
    IN  IF reply.kind \in {"RequestException", "BadJSON"}
        THEN [srv |-> sending, requests |-> sent, out |-> Raised(reply.kind)]
        ELSE IF LastError(answered) # IntValue("0")
        THEN [srv |-> answered, requests |-> sent, out |-> Raised("FileMakerError")]
        ELSE [srv |-> [answered EXCEPT !.headers = DictSet(@, "Content-Type",
                                                          Str("application/json"))],
              requests |-> sent, out |-> Returned(reply)]

\* Server.get_records, inherited by CloudServer
CloudGetRecords(srv, reply) ==
    LET c == CloudCallFilemaker(srv, [method |-> "GET", path |-> <<"records", None>>,
                                      record_id |-> None, data |-> {},
                                      mod_id |-> None, auth |-> FALSE], reply)
    IN  IF c.out.kind # "returned" THEN c
        ELSE [c EXCEPT !.out = UnstartedFoundset]

\* Server.logout, inherited by CloudServer
CloudLogout(srv, reply) ==
    LET c == CloudCallFilemaker([srv EXCEPT !.token = Str("")],
                                [method |-> "DELETE", path |-> <<"sessions", srv.token>>,
                                 record_id |-> None, data |-> {},
                                 mod_id |-> None, auth |-> FALSE], reply)
    IN  IF c.out.kind # "returned" THEN c
        ELSE [c EXCEPT !.out = Returned(LastError(c.srv) = IntValue("0"))]

\* CloudServer.login: _fmid_token is the id token of Cognito, _token is the
\* token of the response to the session request (_get_bearer_token), then
\* _fmid_token is set to None; an exception of one of the steps leaves the
\* method there
CloudServerLogin(srv, cognito, reply) ==
    IF cognito.raised # "none"
    THEN [srv |-> srv, requests |-> <<>>, out |-> Raised(cognito.raised)]
    ELSE LET c == CloudCallFilemaker([srv EXCEPT !.fmid_token = cognito.id_token],
                                     [method |-> "POST", path |-> <<"sessions", Str("")>>,
                                      record_id |-> None, data |-> {},
                                      mod_id |-> None, auth |-> FALSE], reply)
         IN  IF c.out.kind # "returned" THEN c
             ELSE [c EXCEPT !.srv.token = reply.token, !.srv.fmid_token = None,
                            !.out = Returned(reply.token)]

----------------------------------------------------------------------------
(* SpecCloud: one CloudServer: logins and the calls of a session *)

\* the calls made besides login
CloudOps == {"logout", "get_records", "fetch_file"}

\* the call op of the CloudServer, answered with reply
CloudSessionCall(srv, op, reply) ==
    CASE op = "logout" -> CloudLogout(srv, reply)
      [] op = "get_records" -> CloudGetRecords(srv, reply)
      [] op = "fetch_file" -> ServerFetchFile(srv, reply)

InitCloud ==
    /\ server = CloudServerInit
    /\ last = NoLast
    /\ run = NoRun
    /\ record = NoRecord
    /\ args = NoArgs
    /\ response = NoResponse
    /\ portals = NoPortals
    /\ given = [records |-> <<>>, info |-> [supplied |-> FALSE, info |-> EmptyInfo]]
    /\ foundset = FoundsetInit(given.records, given.info)
    /\ its = [k \in Iters |-> NoIter]
    /\ hist = [k \in Iters |-> <<>>]
    /\ ret = [op |-> "init", arg |-> 0, out |-> Raise("none")]

\* cloudserver.login()
CloudLogin(cognito, reply) ==
    /\ LET c == CloudServerLogin(server, cognito, reply)
       IN  /\ server' = c.srv
           /\ last' = [NoLast EXCEPT !.op = "login", !.opts = <<reply>>, !.srv = server,
                                     !.requests = c.requests, !.out = c.out]
    /\ UNCHANGED <<fsVars, run, args, record, mapVars>>

\* a call of the session on the CloudServer
CloudCall(op, reply) ==
    /\ LET c == CloudSessionCall(server, op, reply)
       IN  /\ server' = c.srv
           /\ last' = [NoLast EXCEPT !.op = op, !.opts = <<reply>>, !.srv = server,
                                     !.requests = c.requests, !.out = c.out]
    /\ UNCHANGED <<fsVars, run, args, record, mapVars>>

NextCloud ==
    \/ \E cognito \in CognitoAnswers, reply \in LoginReplies : CloudLogin(cognito, reply)
    \/ \E op \in CloudOps : \E reply \in RepliesTo(op) : CloudCall(op, reply)

SpecCloud == InitCloud /\ [][NextCloud]_vars

\* the request carries the FMID token
WithFmid(request) ==
    Authorization(request) # None /\ StartsWith(Authorization(request).text, "FMID ")

\* C40: CloudServer.login uses the FMID token for the session request
\* only: after login() has returned or raised, the FMID token is cleared,
\* and every request of a later call carries 'Bearer ' and the session
\* token or no Authorization header, never 'FMID ' and a token.
C40_FmidOnlyForLogin ==
    /\ last.op = "login" => server.fmid_token = None
    /\ last.op \in CloudOps =>
          \A i \in 1..Len(last.requests) :
              \/ Authorization(last.requests[i]) = None
              \/ /\ Truthy(last.srv.token)
                 /\ Authorization(last.requests[i]) = Str("Bearer " \o last.srv.token.text)

\* the part of C40 the code keeps: a login that returned has cleared the
\* FMID token, its session request carried it, and a call made while the
\* FMID token is clear carries none
C40_AfterReturnedLogin ==
    /\ last.op = "login" /\ last.out.kind = "returned" =>
          server.fmid_token = None /\ WithFmid(last.requests[1])
    /\ last.op \in CloudOps /\ last.srv.fmid_token = None =>
          \A i \in 1..Len(last.requests) : ~WithFmid(last.requests[i])

\* a login has raised on the answer to its session request, and the call
\* after it has sent the FMID token
C40_FmidSentLater ==
    /\ last.op \in CloudOps /\ last.requests # <<>>
    /\ WithFmid(last.requests[1])

====
